---------------------------- MODULE Spec2Model ----------------------------
(***************************************************************************)
(* cockpit: the `cockpit` CLI's create pipeline (src/src/cli.ts,           *)
(* cmdCreate with its cleanup and signal handlers) and the web server's    *)
(* agent bridge (agent-bridge.ts, src/unnamed/part_001, driven by the      *)
(* WebSocket handlers of src/src/web/index.ts).                            *)
(*                                                                         *)
(* Both programs run on one event loop.  A step of the model is one        *)
(* macrotask: the code that runs from the completion of a child process    *)
(* or of an I/O promise (or from a signal or a WebSocket callback) up to   *)
(* the next await on a child process or I/O promise.                       *)
(*                                                                         *)
(* SpecCreate is one run of `cockpit` (cmdCreate) without --dry-run.       *)
(* SpecBridge is the agent bridge with transports connecting and closing   *)
(* while agent sessions emit events; SpecCommands is the bridge with       *)
(* transports connecting and closing while clients send messages and       *)
(* disposeAgent is called; SpecMessages is the bridge with transports     *)
(* connecting and closing while clients send well-formed and malformed     *)
(* messages.  SpecWindow is a tmux window in which `cockpit attach` and    *)
(* `cockpit destroy` (cmdAttach, cmdDestroy) run one after the other.      *)
(* SpecCreateCheck is one run of `cockpit` from the existing-binding check *)
(* at the head of cmdCreate, in a window that may already be bound.        *)
(* SpecNaming is sanitizeName applied to one string.                       *)
(* SpecPrompts is the bridge with clients sending messages while the       *)
(* prompts handed to the sessions resolve or reject; SpecDelete is the     *)
(* bridge with sprites deleted through the dashboard or the API.           *)
(* SpecPair is several `cockpit` runs started in the same tmux window.     *)
(* SpecCreateFair is SpecCreate in which every spawned child process       *)
(* eventually ends.                                                        *)
(***************************************************************************)
EXTENDS Integers, Sequences, FiniteSets, TLC

(***************************************************************************)
(* Bounds of the model.                                                    *)
(***************************************************************************)
\* signals delivered to one cockpit process
MaxSignals == 2
\* WebSocket transports opened on the server while sessions emit events
MaxTransports == 3
\* WebSocket transports opened on the server while clients send commands
MaxClients == 2
\* events emitted by the agent sessions, in total
MaxEvents == 2
\* client messages received by the server, in total
MaxMessages == 2
\* malformed client messages received by the server, in total
MaxMalformed == 1
\* calls of disposeAgent
MaxDisposes == 1
\* `cockpit attach` / `cockpit destroy` commands run in one tmux window
MaxCommands == 3

\* the number of runs of equal characters an input of sanitizeName has
MaxRuns == 3

\* the number of digits getUTCFullYear() can have
MaxYearDigits == 5

\* the number of cockpit processes running cmdCreate in one window
MaxCreators == 2

VARIABLES
    \* ---- cmdCreate: inputs of the run
    inTmux,         \* isInTmux(), cli.ts:1033
    qa,             \* --qa / COCKPIT_QA
    qaTurn,         \* --qa-turn / COCKPIT_QA_TURN
    needsSsh,       \* repoNeedsSsh(repoUrl)
    \* ---- cmdCreate: the run
    pc,             \* the await the main flow is suspended at
    thrown,         \* the try block ended by an exception
    spriteReady,    \* cli.ts:1034
    tmuxBound,      \* cli.ts:1035
    cleaningUp,     \* cli.ts:1037
    cleanupOwner,   \* the caller whose cleanup() call passed the guard
    cleanupAt,      \* the await the cleanup body is suspended at
    cleanupRuns,    \* times the cleanup body was entered (past the guard)
    destroyIssued,  \* `sprite destroy -force` commands spawned by cleanup
    clearIssued,    \* `tmux set-option -wu` commands spawned by cleanup
    readyAtCleanup, \* value of spriteReady read by the cleanup body
    signals,        \* signals delivered so far
    lastSignal,     \* the last signal delivered
    sandbox,        \* the remote sandbox: "none", "live", "gone"
    binding,        \* tmux window option @cockpit_sprite: "none" or "mine"
    shell,          \* the attached shell: "none", "running", "exit0", "exitN"
    exitCode,       \* "running", or the way the process ended
    childKills,     \* child.kill calls made on the attached shell's process
    abortedAt,      \* the step whose failure made cmdCreate throw before its try
    stepLog,        \* the awaits of the main flow that have completed, in order,
                    \* each with the result of its child process
    \* ---- agent bridge
    store,              \* ids of the sprites in the registry (SpriteStore)
    activeConnections,  \* part_001:17, sprite id -> AgentConnection object (0: none)
    connections,        \* the AgentConnection objects allocated (part_001:34)
    sessions,           \* the agent sessions createAgentSession has returned
    subs,               \* the listeners session.subscribe has registered
    sockets,            \* the WebSocket transports opened so far
    sent,               \* per transport, the messages passed to ws.send
    inbox,              \* the client messages handled so far
    disposeLog,         \* the sprite ids disposeAgent was called with
    closeSeen,          \* per sprite id, the session the last handleAgentClose
                        \* found in the map (0: none so far)
    status,             \* per sprite id, SpriteInfo.status in the registry
    \* ---- cockpit attach / cockpit destroy in one tmux window
    wInTmux,        \* isInTmux() of the commands run in the window
    wBinding,       \* the window option @cockpit_sprite: "none" or a sprite name
    wSandbox,       \* the sandbox of that name: "live" or "gone"
    wPc,            \* the await the running command is suspended at
    wRun,           \* the running command and what it has done so far
    wLog,           \* the commands that have ended, with their outcome
    \* the naming of a sandbox
    rawName,        \* the string handed to sanitizeName
    spriteName,     \* what sanitizeName returned for it
    \* ---- cockpit processes running cmdCreate in one tmux window
    creators,       \* per process, where its cmdCreate is and what it has done
    option          \* the window option @cockpit_sprite: 0, or the process
                    \* whose sandbox it names

createVars == <<inTmux, qa, qaTurn, needsSsh, pc, thrown, spriteReady, tmuxBound,
                cleaningUp, cleanupOwner, cleanupAt, cleanupRuns, destroyIssued,
                clearIssued, readyAtCleanup, signals, lastSignal, sandbox,
                binding, shell, exitCode, childKills, abortedAt, stepLog>>

bridgeVars == <<store, activeConnections, connections, sessions, subs, sockets,
                sent, inbox, disposeLog, closeSeen, status>>

windowVars == <<wInTmux, wBinding, wSandbox, wPc, wRun, wLog>>

nameVars == <<rawName, spriteName>>

pairVars == <<creators, option>>

vars == <<createVars, bridgeVars, windowVars, nameVars, pairVars>>

(***************************************************************************)
(* Results of a child process: exit code 0, a non-zero exit code, or a     *)
(* spawn-level error (spawnPromise rejects, cli.ts:556).                   *)
(***************************************************************************)
Results == {"ok", "fail", "error"}

Signals == {"SIGINT", "SIGTERM"}

\* main-flow positions before process.on(...) is reached (cli.ts:1003-1031)
PreStages == {"bindingRead", "bindingProbe", "bindingClear",
              "authCheck", "login", "create"}

Running == exitCode = "running"

\* handleSignal: process.exit(sig === "SIGTERM" ? 143 : 130)
SignalExitCode(sig) == IF sig = "SIGTERM" THEN "143" ELSE "130"

\* the sandbox was created: the handlers are installed, the try block entered
InPipeline == sandbox # "none"

\* variant: the readiness of the sandbox is not looked at
ShouldDestroyIgnoringReady == qa \/ qaTurn \/ ~inTmux

\* variant: the tmux test is inverted
ShouldDestroyInTmux == ~spriteReady \/ qa \/ qaTurn \/ inTmux

\* variant: the QA flags are not looked at
ShouldDestroyIgnoringQa == ~spriteReady \/ ~inTmux

\* cleanup's `shouldDestroy`
ShouldDestroy == ~spriteReady \/ qa \/ qaTurn \/ ~inTmux

\* the cleanup body is suspended at a child process
CleanupInFlight == cleanupAt \in {"destroy", "clear"}

\* this call of cleanup() will suspend its caller at the destroy command
CleanupSuspends == ~cleaningUp /\ ShouldDestroy

\* variant: cleanup() without the cleaningUp guard
CleanupUnguarded(owner) ==
    /\ cleaningUp' = TRUE
    /\ cleanupRuns' = cleanupRuns + 1
    /\ readyAtCleanup' = spriteReady
    /\ IF ShouldDestroy
       THEN /\ destroyIssued' = destroyIssued + 1
            /\ cleanupOwner' = IF cleaningUp THEN cleanupOwner ELSE owner
            /\ cleanupAt' = "destroy"
       ELSE /\ cleanupAt' = IF cleaningUp THEN cleanupAt ELSE "done"
            /\ UNCHANGED <<destroyIssued, cleanupOwner>>

(***************************************************************************)
(* cleanup(), called by `owner` ("finally" or a signal), up to its first   *)
(* await: the guard, cleaningUp = true, shouldDestroy and the spawn of the *)
(* destroy command.                                                        *)
(***************************************************************************)
Cleanup(owner) ==
    IF cleaningUp
    THEN UNCHANGED <<cleaningUp, cleanupRuns, readyAtCleanup, destroyIssued,
                     cleanupOwner, cleanupAt>>
    ELSE /\ cleaningUp' = TRUE
         /\ cleanupRuns' = cleanupRuns + 1
         /\ readyAtCleanup' = spriteReady
         /\ IF ShouldDestroy
            THEN /\ destroyIssued' = destroyIssued + 1
                 /\ cleanupOwner' = owner
                 /\ cleanupAt' = "destroy"
            ELSE /\ cleanupAt' = "done"
                 /\ UNCHANGED <<destroyIssued, cleanupOwner>>

(***************************************************************************)
(* The main flow has ended (cmdCreate returned or threw, main().catch set  *)
(* process.exitCode): the process exits as soon as nothing is pending.     *)
(***************************************************************************)
NaturalExit(th) == IF th THEN "1" ELSE "0"

\* variant: the finally block does not wait for cleanup() before the
\* process exits
FinallyNotAwaited(th) ==
    /\ Cleanup("finally")
    /\ UNCHANGED abortedAt
    /\ thrown' = th
    /\ pc' = "ended"
    /\ exitCode' = NaturalExit(th)

(***************************************************************************)
(* The finally block of cmdCreate: `await cleanup()`, after the try block  *)
(* returned (th = FALSE) or threw (th = TRUE).                             *)
(***************************************************************************)
Finally(th) ==
    /\ Cleanup("finally")
    /\ UNCHANGED abortedAt
    /\ thrown' = th
    /\ IF CleanupSuspends
       THEN pc' = "finally" /\ exitCode' = exitCode
       ELSE /\ pc' = "ended"
            /\ exitCode' = IF CleanupInFlight THEN exitCode ELSE NaturalExit(th)

\* a failure before the try block: cmdCreate throws, main().catch, exit 1
AbortBeforeTry ==
    /\ pc' = "ended"
    /\ abortedAt' = pc
    /\ thrown' = TRUE
    /\ exitCode' = "1"
    /\ UNCHANGED <<cleaningUp, cleanupRuns, readyAtCleanup, destroyIssued,
                   cleanupOwner, cleanupAt>>

\* the main flow goes on to its next await
Goto(next) ==
    /\ pc' = next
    /\ UNCHANGED abortedAt
    /\ UNCHANGED <<thrown, exitCode, cleaningUp, cleanupRuns, readyAtCleanup,
                   destroyIssued, cleanupOwner, cleanupAt>>

\* what a main-flow step leaves alone besides what Goto/Finally set
StepFrame ==
    /\ UNCHANGED <<inTmux, qa, qaTurn, needsSsh, clearIssued, signals, lastSignal,
                   childKills>>
    /\ UNCHANGED <<bridgeVars, windowVars, nameVars, pairVars>>

\* the await the main flow was suspended at has completed with result r
Logged(r) == stepLog' = Append(stepLog, [step |-> pc, result |-> r])

\* the state of a cockpit process when cmdCreate reaches its auth check
RunStart ==
    /\ pc = "authCheck"
    /\ thrown = FALSE
    /\ spriteReady = FALSE
    /\ tmuxBound = FALSE
    /\ cleaningUp = FALSE
    /\ cleanupOwner = "none"
    /\ cleanupAt = "idle"
    /\ cleanupRuns = 0
    /\ destroyIssued = 0
    /\ clearIssued = 0
    /\ readyAtCleanup = FALSE
    /\ signals = 0
    /\ lastSignal = "none"
    /\ sandbox = "none"
    /\ binding = "none"
    /\ shell = "none"
    /\ exitCode = "running"
    /\ childKills = 0
    /\ abortedAt = "none"
    /\ stepLog = <<>>

InitCreate ==
    /\ inTmux \in BOOLEAN
    /\ qa \in BOOLEAN
    /\ qaTurn \in BOOLEAN
    /\ needsSsh \in BOOLEAN
    /\ RunStart

(***************************************************************************)
(* The main flow of cmdCreate, one action per awaited child process.       *)
(***************************************************************************)
\* `sprite org list`: the authentication probe
AuthCheck(r) ==
    /\ Running /\ pc = "authCheck"
    /\ CASE r = "ok" -> Goto("create")
         [] r = "fail" -> Goto("login")
         [] OTHER -> AbortBeforeTry
    /\ StepFrame
    /\ Logged(r)
    /\ UNCHANGED <<spriteReady, tmuxBound, sandbox, binding, shell>>

\* variant: the result of the login command is not looked at
LoginIgnoringFailure(r) ==
    /\ Running /\ pc = "login"
    /\ Goto("create")
    /\ StepFrame
    /\ Logged(r)
    /\ UNCHANGED <<spriteReady, tmuxBound, sandbox, binding, shell>>

\* `sprite login`
Login(r) ==
    /\ Running /\ pc = "login"
    /\ IF r = "ok" THEN Goto("create") ELSE AbortBeforeTry
    /\ StepFrame
    /\ Logged(r)
    /\ UNCHANGED <<spriteReady, tmuxBound, sandbox, binding, shell>>

\* variant: the exit code of the create command is not looked at
CreateIgnoringFailure(r) ==
    /\ Running /\ pc = "create"
    /\ Goto("remoteHome")
    /\ sandbox' = IF r = "ok" THEN "live" ELSE sandbox
    /\ StepFrame
    /\ Logged(r)
    /\ UNCHANGED <<spriteReady, tmuxBound, binding, shell>>

\* `sprite create -skip-console <name>`; on success the signal handlers are
\* installed and the try block is entered (getRemoteHome is spawned)
Create(r) ==
    /\ Running /\ pc = "create"
    /\ IF r = "ok"
       THEN Goto("remoteHome") /\ sandbox' = "live"
       ELSE AbortBeforeTry /\ UNCHANGED sandbox
    /\ StepFrame
    /\ Logged(r)
    /\ UNCHANGED <<spriteReady, tmuxBound, binding, shell>>

\* getRemoteHome: the exit code is not looked at
RemoteHome(r) ==
    /\ Running /\ pc = "remoteHome"
    /\ IF r = "error"
       THEN Finally(TRUE)
       ELSE Goto(IF needsSsh THEN "keyCheck" ELSE "bootstrap")
    /\ StepFrame
    /\ Logged(r)
    /\ UNCHANGED <<spriteReady, tmuxBound, sandbox, binding, shell>>

(***************************************************************************)
(* The local key files as isCockpitManagedGithubKey finds them: a          *)
(* self-consistent cockpit-managed pair ("managed": returns true), a       *)
(* missing file, a foreign comment, a failing ssh-keygen or a mismatch     *)
(* ("unmanaged": returns false), or a public key file / ssh-keygen output  *)
(* with fewer than two fields, for which parseAuthorizedKeyLine throws     *)
(* `Invalid public key format` ("unreadable").                             *)
(***************************************************************************)
KeyStates == {"managed", "unmanaged", "unreadable"}

\* isCockpitManagedGithubKey() in cmdCreate: go on to the upload, throw the
\* `Run cockpit init` error (logged as "fail"), or let the error thrown by
\* isCockpitManagedGithubKey pass (logged as "error")
KeyCheck(key) ==
    /\ Running /\ pc = "keyCheck"
    /\ IF key = "managed" THEN Goto("keyUpload") ELSE Finally(TRUE)
    /\ StepFrame
    /\ Logged(CASE key = "managed" -> "ok"
                [] key = "unmanaged" -> "fail"
                [] OTHER -> "error")
    /\ UNCHANGED <<spriteReady, tmuxBound, sandbox, binding, shell>>

\* variant: runOk without the test of the exit code
RunOkStepIgnoringFailure(here, r, next) ==
    /\ Running /\ pc = here
    /\ IF r # "error" THEN Goto(next) ELSE Finally(TRUE)
    /\ StepFrame
    /\ Logged(r)
    /\ UNCHANGED <<spriteReady, tmuxBound, sandbox, binding, shell>>

\* a runOk step of the try block: on success go on, otherwise throw
RunOkStep(here, r, next) ==
    /\ Running /\ pc = here
    /\ IF r = "ok" THEN Goto(next) ELSE Finally(TRUE)
    /\ StepFrame
    /\ Logged(r)
    /\ UNCHANGED <<spriteReady, tmuxBound, sandbox, binding, shell>>

KeyUpload(r) == RunOkStep("keyUpload", r, "bootstrap")

Bootstrap(r) == RunOkStep("bootstrap", r, "clone")

\* what can happen to the clone command: whether `sprite exec` could be
\* spawned, and how the two `git clone` commands of its script would end
GitRuns == [spawned : BOOLEAN, branch : {"ok", "fail"}, fallback : {"ok", "fail"}]

\* variant: the script ends with the result of `git clone --branch`
remoteCloneScriptWithoutFallback(git) ==
    [result |-> git.branch, branch |-> git.branch, fallback |-> "notRun",
     warned |-> FALSE]

\* remoteCloneScript under `set -eu`: `git clone --depth 1 --branch`; when
\* it fails, the WARN line on stderr and `git clone --depth 1`, whose exit
\* code is the script's.  rm, mkdir, echo and cat are taken to succeed.
remoteCloneScript(git) ==
    IF git.branch = "ok"
    THEN [result |-> "ok", branch |-> "ok", fallback |-> "notRun",
          warned |-> FALSE]
    ELSE [result |-> git.fallback, branch |-> "fail", fallback |-> git.fallback,
          warned |-> TRUE]

\* the clone step: runOk of `sprite exec ... sh -c <remoteCloneScript>`
Clone(git) ==
    /\ Running /\ pc = "clone"
    /\ LET ran == IF git.spawned THEN remoteCloneScript(git)
                  ELSE [result |-> "error", branch |-> "notRun",
                        fallback |-> "notRun", warned |-> FALSE]
       IN /\ IF ran.result = "ok" THEN Goto("piDirCheck") ELSE Finally(TRUE)
          /\ stepLog' = Append(stepLog, [step |-> pc] @@ ran)
    /\ StepFrame
    /\ UNCHANGED <<spriteReady, tmuxBound, sandbox, binding, shell>>

\* pathExists(hostPiDir)
PiDirCheck(exists) ==
    /\ Running /\ pc = "piDirCheck"
    /\ Goto(IF exists THEN "tar" ELSE "sanity")
    /\ StepFrame
    /\ Logged(IF exists THEN "ok" ELSE "fail")
    /\ UNCHANGED <<spriteReady, tmuxBound, sandbox, binding, shell>>

Tar(r) == RunOkStep("tar", r, "upload")

\* uploadAndExtractTarball, then fs.rm of the tarball in its finally
Upload(r) == RunOkStep("upload", r, "sanity")

\* the position after `spriteReady = true`
AfterReady ==
    IF qaTurn THEN "qaTurnStep"
    ELSE IF qa THEN "qaStep"
    ELSE IF inTmux THEN "bind"
    ELSE "attach"

\* variant: the sandbox is not marked ready after the sanity check
SanityWithoutReady(r) ==
    /\ Running /\ pc = "sanity"
    /\ IF r = "ok"
       THEN /\ Goto(AfterReady)
            /\ shell' = IF AfterReady = "attach" THEN "running" ELSE shell
       ELSE Finally(TRUE) /\ UNCHANGED shell
    /\ UNCHANGED spriteReady
    /\ StepFrame
    /\ Logged(r)
    /\ UNCHANGED <<tmuxBound, sandbox, binding>>

\* variant: the exit code of the sanity check is not looked at
SanityIgnoringFailure(r) ==
    /\ Running /\ pc = "sanity"
    /\ IF r # "error"
       THEN /\ Goto(AfterReady)
            /\ spriteReady' = TRUE
            /\ shell' = IF AfterReady = "attach" THEN "running" ELSE shell
       ELSE Finally(TRUE) /\ UNCHANGED <<spriteReady, shell>>
    /\ StepFrame
    /\ Logged(r)
    /\ UNCHANGED <<tmuxBound, sandbox, binding>>

\* the sanity check, then spriteReady = true and the next spawn
Sanity(r) ==
    /\ Running /\ pc = "sanity"
    /\ IF r = "ok"
       THEN /\ Goto(AfterReady)
            /\ spriteReady' = TRUE
            /\ shell' = IF AfterReady = "attach" THEN "running" ELSE shell
       ELSE Finally(TRUE) /\ UNCHANGED <<spriteReady, shell>>
    /\ StepFrame
    /\ Logged(r)
    /\ UNCHANGED <<tmuxBound, sandbox, binding>>

\* the scripted check of --qa-turn or --qa, then `return`
QaCheck(here, r) ==
    /\ Running /\ pc = here
    /\ Finally(r # "ok")
    /\ StepFrame
    /\ Logged(r)
    /\ UNCHANGED <<spriteReady, tmuxBound, sandbox, binding, shell>>

QaTurnStep(r) == QaCheck("qaTurnStep", r)

QaStep(r) == QaCheck("qaStep", r)

\* setTmuxWindowSprite, then tmuxBound = true and attachToSprite's spawn
Bind(r) ==
    /\ Running /\ pc = "bind"
    /\ IF r = "ok"
       THEN /\ Goto("attach")
            /\ binding' = "mine"
            /\ tmuxBound' = TRUE
            /\ shell' = "running"
       ELSE Finally(TRUE) /\ UNCHANGED <<binding, tmuxBound, shell>>
    /\ StepFrame
    /\ Logged(r)
    /\ UNCHANGED <<spriteReady, sandbox>>

\* variant: the exit code of the shell is not looked at
AttachIgnoringExitCode(r) ==
    /\ Running /\ pc = "attach"
    /\ r \in {"ok", "fail"}
    /\ Finally(FALSE)
    /\ shell' = IF r = "ok" THEN "exit0" ELSE "exitN"
    /\ StepFrame
    /\ Logged(r)
    /\ UNCHANGED <<spriteReady, tmuxBound, sandbox, binding>>

\* attachToSprite: the interactive shell exits with code 0 or not
Attach(r) ==
    /\ Running /\ pc = "attach"
    /\ r \in {"ok", "fail"}
    /\ Finally(r # "ok")
    /\ shell' = IF r = "ok" THEN "exit0" ELSE "exitN"
    /\ StepFrame
    /\ Logged(r)
    /\ UNCHANGED <<spriteReady, tmuxBound, sandbox, binding>>

(***************************************************************************)
(* SIGINT / SIGTERM.  Before process.on(...) the default disposition ends  *)
(* the process; afterwards handleSignal runs cleanup() and process.exit.   *)
(***************************************************************************)
\* variant: the handler exits without running cleanup
handleSignalExitOnly(sig) ==
    /\ exitCode' = SignalExitCode(sig)
    /\ UNCHANGED <<cleaningUp, cleanupRuns, readyAtCleanup, destroyIssued,
                   cleanupOwner, cleanupAt>>

handleSignal(sig) ==
    /\ Cleanup(sig)
    /\ exitCode' = IF CleanupSuspends THEN exitCode ELSE SignalExitCode(sig)

Signal(sig) ==
    /\ Running /\ signals < MaxSignals
    /\ signals' = signals + 1
    /\ lastSignal' = sig
    /\ IF pc \in PreStages
       THEN /\ exitCode' = sig
            /\ UNCHANGED <<cleaningUp, cleanupRuns, readyAtCleanup, destroyIssued,
                           cleanupOwner, cleanupAt>>
       ELSE handleSignal(sig)
    /\ UNCHANGED <<inTmux, qa, qaTurn, needsSsh, pc, thrown, spriteReady,
                   tmuxBound, clearIssued, sandbox, binding, shell, childKills,
                   abortedAt, stepLog>>
    /\ UNCHANGED <<bridgeVars, windowVars, nameVars, pairVars>>

(***************************************************************************)
(* The cleanup body after its awaits.                                      *)
(***************************************************************************)
\* cleanup() has returned to the caller that awaited it
CleanupReturns ==
    IF cleanupOwner = "finally"
    THEN pc' = "ended" /\ exitCode' = NaturalExit(thrown) /\ UNCHANGED thrown
    ELSE exitCode' = SignalExitCode(cleanupOwner) /\ UNCHANGED <<pc, thrown>>

\* cleanup() has thrown: cmdCreate rejects, or handleSignal's promise does
CleanupThrows ==
    /\ exitCode' = "1"
    /\ IF cleanupOwner = "finally"
       THEN pc' = "ended" /\ thrown' = TRUE
       ELSE UNCHANGED <<pc, thrown>>

\* the destroy command has ended (allowFailure: only a spawn error throws)
CleanupDestroyDone(r) ==
    /\ Running /\ cleanupAt = "destroy"
    /\ sandbox' = IF r = "ok" THEN "gone" ELSE sandbox
    /\ IF r = "error"
       THEN CleanupThrows /\ cleanupAt' = "done" /\ UNCHANGED clearIssued
       ELSE IF tmuxBound
            THEN /\ cleanupAt' = "clear"
                 /\ clearIssued' = clearIssued + 1
                 /\ UNCHANGED <<pc, thrown, exitCode>>
            ELSE CleanupReturns /\ cleanupAt' = "done" /\ UNCHANGED clearIssued
    /\ UNCHANGED <<inTmux, qa, qaTurn, needsSsh, spriteReady, tmuxBound,
                   cleaningUp, cleanupOwner, cleanupRuns, destroyIssued,
                   readyAtCleanup, signals, lastSignal, binding, shell,
                   childKills, abortedAt, stepLog>>
    /\ UNCHANGED <<bridgeVars, windowVars, nameVars, pairVars>>

\* clearTmuxWindowSprite has ended; its failure is caught and logged
CleanupClearDone(r) ==
    /\ Running /\ cleanupAt = "clear"
    /\ binding' = IF r = "ok" THEN "none" ELSE binding
    /\ CleanupReturns
    /\ cleanupAt' = "done"
    /\ UNCHANGED <<inTmux, qa, qaTurn, needsSsh, spriteReady, tmuxBound,
                   cleaningUp, cleanupOwner, cleanupRuns, destroyIssued,
                   clearIssued, readyAtCleanup, signals, lastSignal, sandbox,
                   shell, childKills, abortedAt, stepLog>>
    /\ UNCHANGED <<bridgeVars, windowVars, nameVars, pairVars>>

(***************************************************************************)
(* The agent bridge (part_001) behind the WebSocket route of index.ts.     *)
(***************************************************************************)
SpriteIds == {"a", "b"}

\* the messages the server passes to ws.send
Connected == [type |-> "connected", session |-> 0, seq |-> 0]

ErrNotFound == [type |-> "error: Sprite not found", session |-> 0, seq |-> 0]

ErrCreate == [type |-> "error: session creation failed", session |-> 0, seq |-> 0]

ErrNoSession == [type |-> "error: No active session", session |-> 0, seq |-> 0]

AgentEvent(s, n) == [type |-> "event", session |-> s, seq |-> n]

MessageKinds == {"prompt", "promptNoText", "abort"}

\* sendError(String(err)) for a rejected session.prompt
ErrPrompt == [type |-> "error: prompt rejected", session |-> 0, seq |-> 0]

\* the replies of the ws message handler to a message it cannot read
ErrInvalid == [type |-> "error: Invalid WebSocket message", session |-> 0, seq |-> 0]

ErrInvalidJson == [type |-> "error: Invalid message", session |-> 0, seq |-> 0]

(***************************************************************************)
(* Messages the ws message handler cannot read: text that is not JSON,     *)
(* empty text, text whose JSON value is falsy, a value decodeWsMessage     *)
(* cannot decode (a number, an object without `type` and `data`), and      *)
(* null / undefined.                                                       *)
(***************************************************************************)
MalformedShapes == {"notJson", "emptyText", "jsonFalsy", "undecodable", "null"}

InitBridge ==
    /\ store = {"a"}
    /\ activeConnections = [id \in SpriteIds |-> 0]
    /\ connections = <<>>
    /\ sessions = <<>>
    /\ subs = <<>>
    /\ sockets = <<>>
    /\ sent = <<>>
    /\ inbox = <<>>
    /\ disposeLog = <<>>
    /\ closeSeen = [id \in SpriteIds |-> 0]
    /\ status = [id \in SpriteIds |-> IF id \in store THEN "idle" ELSE "none"]

\* store.updateStatus(id, value): the new registry, unchanged for an id
\* that is not registered
updateStatus(id, value) ==
    IF id \in store THEN [status EXCEPT ![id] = value] ELSE status

\* send(event): ws.send(JSON.stringify(event)), errors swallowed
Send(out, t, m) == [out EXCEPT ![t] = Append(@, m)]

\* calling the unsubscribe function k (0 is the initial `() => {}`)
Unsubscribed(k) ==
    IF k = 0 THEN subs ELSE [subs EXCEPT ![k].active = FALSE]

(***************************************************************************)
(* The .then callback of setupAgentWebSocket for transport t and the       *)
(* AgentConnection c: subscribe, store the unsubscribe, send `connected`.  *)
(* `conns` is the connection table the callback runs on.                   *)
(***************************************************************************)
OnConnection(t, c, conns) ==
    LET s == conns[c].session
        emitted == IF s \in 1..Len(sessions) THEN sessions[s].emitted ELSE 0
        k == Len(subs) + 1
    IN /\ subs' = Append(subs, [session |-> s, ws |-> t, active |-> TRUE])
       /\ connections' = [conns EXCEPT ![c].unsubscribe = k]
       /\ sent' = Send(sent, t, Connected)
       /\ sockets' = [sockets EXCEPT ![t].phase = "connected",
                                     ![t].session = s,
                                     ![t].joinedAt = emitted]

\* ws.open: remember the sprite id, start store.get(spriteId); `limit`
\* bounds the transports opened
WsOpen(id, limit) ==
    /\ Len(sockets) < limit
    /\ sockets' = Append(sockets, [sprite |-> id, phase |-> "lookup",
                                   closed |-> FALSE, closedAt |-> 0,
                                   session |-> 0, joinedAt |-> 0,
                                   afterClose |-> closeSeen[id]])
    /\ sent' = Append(sent, <<>>)
    /\ UNCHANGED <<store, activeConnections, connections, sessions, subs, inbox,
                   disposeLog, closeSeen, status>>
    /\ UNCHANGED <<createVars, windowVars, nameVars, pairVars>>

\* store.get has resolved: setupAgentWebSocket and getOrCreateAgent up to
\* its await, or the `Sprite not found` error and ws.close()
LookupDone(t) ==
    /\ t \in 1..Len(sockets)
    /\ sockets[t].phase = "lookup"
    /\ LET id == sockets[t].sprite
           existing == activeConnections[id]
       IN IF id \notin store
          THEN /\ sent' = Send(sent, t, ErrNotFound)
               /\ sockets' = [sockets EXCEPT ![t].phase = "notFound"]
               /\ UNCHANGED <<connections, subs, sessions>>
          ELSE IF existing # 0
          THEN OnConnection(t, existing, connections) /\ UNCHANGED sessions
          ELSE /\ sockets' = [sockets EXCEPT ![t].phase = "creating"]
               /\ UNCHANGED <<connections, subs, sessions, sent>>
    /\ status' = updateStatus(sockets[t].sprite, "working")
    /\ UNCHANGED <<store, activeConnections, inbox, disposeLog, closeSeen>>
    /\ UNCHANGED <<createVars, windowVars, nameVars, pairVars>>

\* variant: a failed creation is not reported to the transport
CreateDoneSilentFailure(t, ok) ==
    /\ t \in 1..Len(sockets)
    /\ sockets[t].phase = "creating"
    /\ LET id == sockets[t].sprite
           s == Len(sessions) + 1
           c == Len(connections) + 1
       IN IF ok
          THEN /\ sessions' = Append(sessions, [sprite |-> id, emitted |-> 0,
                                                disposeCalls |-> 0,
                                                prompts |-> 0, aborts |-> 0,
                                                inflight |-> <<>>,
                                                settled |-> <<>>])
               /\ activeConnections' = [activeConnections EXCEPT ![id] = c]
               /\ OnConnection(t, c, Append(connections,
                                            [session |-> s, unsubscribe |-> 0]))
          ELSE /\ sockets' = [sockets EXCEPT ![t].phase = "failed"]
               /\ UNCHANGED <<sent, sessions, activeConnections, connections, subs>>
    /\ UNCHANGED <<store, inbox, disposeLog, closeSeen, status>>
    /\ UNCHANGED <<createVars, windowVars, nameVars, pairVars>>

\* createAgentSession has settled for transport t: the rest of
\* getOrCreateAgent and the .then / .catch of setupAgentWebSocket
CreateDone(t, ok) ==
    /\ t \in 1..Len(sockets)
    /\ sockets[t].phase = "creating"
    /\ LET id == sockets[t].sprite
           s == Len(sessions) + 1
           c == Len(connections) + 1
       IN IF ok
          THEN /\ sessions' = Append(sessions, [sprite |-> id, emitted |-> 0,
                                                disposeCalls |-> 0,
                                                prompts |-> 0, aborts |-> 0,
                                                inflight |-> <<>>,
                                                settled |-> <<>>])
               /\ activeConnections' = [activeConnections EXCEPT ![id] = c]
               /\ OnConnection(t, c, Append(connections,
                                            [session |-> s, unsubscribe |-> 0]))
          ELSE /\ sent' = Send(sent, t, ErrCreate)
               /\ sockets' = [sockets EXCEPT ![t].phase = "failed"]
               /\ UNCHANGED <<sessions, activeConnections, connections, subs>>
    /\ UNCHANGED <<store, inbox, disposeLog, closeSeen, status>>
    /\ UNCHANGED <<createVars, windowVars, nameVars, pairVars>>

\* handleAgentClose(spriteId): the new value of subs
handleAgentClose(id) ==
    IF activeConnections[id] # 0
    THEN Unsubscribed(connections[activeConnections[id]].unsubscribe)
    ELSE subs

\* ws.close: handleAgentClose(spriteId)
WsClose(t) ==
    /\ t \in 1..Len(sockets)
    /\ ~sockets[t].closed
    /\ sockets' = [sockets EXCEPT ![t].closed = TRUE,
                                  ![t].closedAt = Len(sent[t])]
    /\ subs' = handleAgentClose(sockets[t].sprite)
    /\ closeSeen' = [closeSeen EXCEPT ![sockets[t].sprite] =
                        IF activeConnections[sockets[t].sprite] # 0
                        THEN connections[activeConnections[sockets[t].sprite]].session
                        ELSE @]
    /\ status' = updateStatus(sockets[t].sprite, "idle")
    /\ UNCHANGED <<store, activeConnections, connections, sessions, sent, inbox,
                   disposeLog>>
    /\ UNCHANGED <<createVars, windowVars, nameVars, pairVars>>

\* the transports the listeners of session s forward to
Listeners(s) == {k \in 1..Len(subs) : subs[k].session = s /\ subs[k].active}

EventsEmitted ==
    LET Sum[i \in 0..Len(sessions)] ==
            IF i = 0 THEN 0 ELSE Sum[i - 1] + sessions[i].emitted
    IN Sum[Len(sessions)]

\* the agent session s emits an event: every listener forwards it
EmitEvent(s) ==
    /\ s \in 1..Len(sessions)
    /\ sessions[s].disposeCalls = 0
    /\ EventsEmitted < MaxEvents
    /\ LET n == sessions[s].emitted + 1
           to == {subs[k].ws : k \in Listeners(s)}
       IN /\ sessions' = [sessions EXCEPT ![s].emitted = n]
          /\ sent' = [t \in 1..Len(sent) |->
                        IF t \in to THEN Append(sent[t], AgentEvent(s, n))
                        ELSE sent[t]]
    /\ UNCHANGED <<store, activeConnections, connections, subs, sockets, inbox,
                   disposeLog, closeSeen, status>>
    /\ UNCHANGED <<createVars, windowVars, nameVars, pairVars>>

\* the messages of the given kinds received so far
Received(kinds) == Cardinality({i \in 1..Len(inbox) : inbox[i].kind \in kinds})

(***************************************************************************)
(* ws.message with a message the handler cannot read.  decodeWsMessage     *)
(* returns null for "undecodable" and "null" and the text otherwise; an    *)
(* empty or missing text is answered with `Invalid WebSocket message`      *)
(* after the diagnostics are computed, and Object.keys(message) among them *)
(* throws for null / undefined before anything is sent; text that is not   *)
(* JSON is answered with `Invalid message`, a falsy JSON value with        *)
(* `Invalid WebSocket message`.                                            *)
(***************************************************************************)
MalformedMessage(t, shape) ==
    /\ t \in 1..Len(sockets)
    /\ ~sockets[t].closed
    /\ Received(MalformedShapes) < MaxMalformed
    /\ inbox' = Append(inbox, [ws |-> t, kind |-> shape])
    /\ sent' = CASE shape = "null" -> sent
                 [] shape = "notJson" -> Send(sent, t, ErrInvalidJson)
                 [] OTHER -> Send(sent, t, ErrInvalid)
    /\ UNCHANGED <<store, activeConnections, connections, sessions, subs,
                   sockets, disposeLog, closeSeen, status>>
    /\ UNCHANGED <<createVars, windowVars, nameVars, pairVars>>

\* variant: a message for an id without session is dropped without a reply
ClientMessageSilent(t, kind) ==
    /\ t \in 1..Len(sockets)
    /\ ~sockets[t].closed
    /\ Received(MessageKinds) < MaxMessages
    /\ inbox' = Append(inbox, [ws |-> t, kind |-> kind])
    /\ LET c == activeConnections[sockets[t].sprite]
       IN IF c = 0
          THEN UNCHANGED <<sent, sessions>>
          ELSE /\ UNCHANGED sent
               /\ sessions' =
                    CASE kind = "prompt" ->
                           [sessions EXCEPT
                              ![connections[c].session].prompts = @ + 1,
                              ![connections[c].session].inflight = Append(@, t)]
                      [] kind = "abort" ->
                           [sessions EXCEPT ![connections[c].session].aborts = @ + 1]
                      [] OTHER -> sessions
    /\ UNCHANGED <<store, activeConnections, connections, subs, sockets,
                   disposeLog, closeSeen, status>>
    /\ UNCHANGED <<createVars, windowVars, nameVars, pairVars>>

\* ws.message with a well-formed message: handleClientMessage
ClientMessage(t, kind) ==
    /\ t \in 1..Len(sockets)
    /\ ~sockets[t].closed
    /\ Received(MessageKinds) < MaxMessages
    /\ inbox' = Append(inbox, [ws |-> t, kind |-> kind])
    /\ LET c == activeConnections[sockets[t].sprite]
       IN IF c = 0
          THEN sent' = Send(sent, t, ErrNoSession) /\ UNCHANGED sessions
          ELSE /\ UNCHANGED sent
               /\ sessions' =
                    CASE kind = "prompt" ->
                           [sessions EXCEPT
                              ![connections[c].session].prompts = @ + 1,
                              ![connections[c].session].inflight = Append(@, t)]
                      [] kind = "abort" ->
                           [sessions EXCEPT ![connections[c].session].aborts = @ + 1]
                      [] OTHER -> sessions
    /\ UNCHANGED <<store, activeConnections, connections, subs, sockets,
                   disposeLog, closeSeen, status>>
    /\ UNCHANGED <<createVars, windowVars, nameVars, pairVars>>

\* the sequence without its i-th element
Without(q, i) == SubSeq(q, 1, i - 1) \o SubSeq(q, i + 1, Len(q))

\* variant: a rejected prompt is not reported
PromptSettledUnreported(s, i, ok) ==
    /\ s \in 1..Len(sessions)
    /\ i \in 1..Len(sessions[s].inflight)
    /\ sessions' = [sessions EXCEPT
                      ![s].inflight = Without(@, i),
                      ![s].settled = Append(@, [ws |-> sessions[s].inflight[i],
                                                ok |-> ok])]
    /\ UNCHANGED sent
    /\ UNCHANGED <<store, activeConnections, connections, subs, sockets, inbox,
                   disposeLog, closeSeen, status>>
    /\ UNCHANGED <<createVars, windowVars, nameVars, pairVars>>

\* the promise of the i-th pending session.prompt call of session s
\* settles: the .catch of handleClientMessage passes a rejection to the
\* sendError of the transport the prompt came from
PromptSettled(s, i, ok) ==
    /\ s \in 1..Len(sessions)
    /\ i \in 1..Len(sessions[s].inflight)
    /\ sessions' = [sessions EXCEPT
                      ![s].inflight = Without(@, i),
                      ![s].settled = Append(@, [ws |-> sessions[s].inflight[i],
                                                ok |-> ok])]
    /\ sent' = IF ok THEN sent ELSE Send(sent, sessions[s].inflight[i], ErrPrompt)
    /\ UNCHANGED <<store, activeConnections, connections, subs, sockets, inbox,
                   disposeLog, closeSeen, status>>
    /\ UNCHANGED <<createVars, windowVars, nameVars, pairVars>>

\* POST /sprites/:id/delete and DELETE /api/sprites/:id: store.delete(id)
\* and the response; the handlers call nothing else
deleteSprite(id) ==
    /\ id \in store
    /\ store' = store \ {id}
    /\ status' = [status EXCEPT ![id] = "none"]
    /\ UNCHANGED <<activeConnections, connections, sessions, subs, sockets, sent,
                   inbox, disposeLog, closeSeen>>
    /\ UNCHANGED <<createVars, windowVars, nameVars, pairVars>>

\* variant: the map entry is not deleted
disposeAgentKeepingEntry(id) ==
    /\ Len(disposeLog) < MaxDisposes
    /\ disposeLog' = Append(disposeLog, id)
    /\ LET c == activeConnections[id]
       IN IF c = 0
          THEN UNCHANGED <<subs, sessions, activeConnections>>
          ELSE /\ subs' = Unsubscribed(connections[c].unsubscribe)
               /\ sessions' = [sessions EXCEPT
                                 ![connections[c].session].disposeCalls = @ + 1]
               /\ UNCHANGED activeConnections
    /\ UNCHANGED <<store, connections, sockets, sent, inbox, closeSeen,
                   status>>
    /\ UNCHANGED <<createVars, windowVars, nameVars, pairVars>>

\* disposeAgent(spriteId)
disposeAgent(id) ==
    /\ Len(disposeLog) < MaxDisposes
    /\ disposeLog' = Append(disposeLog, id)
    /\ LET c == activeConnections[id]
       IN IF c = 0
          THEN UNCHANGED <<subs, sessions, activeConnections>>
          ELSE /\ subs' = Unsubscribed(connections[c].unsubscribe)
               /\ sessions' = [sessions EXCEPT
                                 ![connections[c].session].disposeCalls = @ + 1]
               /\ activeConnections' = [activeConnections EXCEPT ![id] = 0]
    /\ UNCHANGED <<store, connections, sockets, sent, inbox, closeSeen,
                   status>>
    /\ UNCHANGED <<createVars, windowVars, nameVars, pairVars>>

(***************************************************************************)
(* `cockpit attach` (cmdAttach) and `cockpit destroy` (cmdDestroy), run    *)
(* one after the other in one tmux window, without --dry-run.              *)
(***************************************************************************)
\* the name a window may be bound to
BoundName == "s1"

\* how the probe command of probeSpriteExistence can end
ProbeOutcomes == {"exit0", "notFoundText", "otherFailure", "error"}

\* no command is running
NoRun == [cmd |-> "none", before |-> "none", seen |-> "unread",
          probed |-> "none", clears |-> 0, destroys |-> 0, attached |-> FALSE]

InitWindow ==
    /\ wInTmux \in BOOLEAN
    /\ wBinding \in {"none", BoundName}
    /\ wSandbox \in {"live", "gone"}
    /\ wPc = "idle"
    /\ wRun = NoRun
    /\ wLog = <<>>

\* getTmuxWindowSprite: the value read when `tmux show-option` ended with r
getTmuxWindowSprite(r) == IF r = "ok" THEN wBinding ELSE "none"

\* variant: every failure of the probe command counts as `not found`
probeTreatingFailureAsAbsent(out) ==
    IF out = "exit0" THEN "yes" ELSE "no"

\* probeSpriteExistence: the existence reported for a probe that ended
probeSpriteExistence(out) ==
    CASE out = "exit0" -> "yes"
      [] out = "notFoundText" -> "no"
      [] OTHER -> "unknown"

\* the command ends (returns, or throws into main().catch) with `outcome`
Finish(run, outcome, after) ==
    /\ wLog' = Append(wLog, [run |-> run, outcome |-> outcome, after |-> after])
    /\ wRun' = NoRun
    /\ wPc' = "idle"

\* the command goes on to its next await
Await(next, run) ==
    /\ wPc' = next
    /\ wRun' = run
    /\ UNCHANGED wLog

\* a command starts: the isInTmux() test, then getTmuxWindowSprite is spawned
StartCommand(cmd) ==
    /\ wPc = "idle" /\ Len(wLog) < MaxCommands
    /\ LET run == [NoRun EXCEPT !.cmd = cmd, !.before = wBinding]
       IN IF wInTmux
          THEN Await("read", run)
          ELSE Finish(run, "errNoTmux", wBinding)
    /\ UNCHANGED <<wInTmux, wBinding, wSandbox>>
    /\ UNCHANGED <<createVars, bridgeVars, nameVars, pairVars>>

cmdAttach == StartCommand("attach")

cmdDestroy == StartCommand("destroy")

\* cmdAttach after getTmuxWindowSprite: no binding throws, else the probe
AttachBindingRead(r) ==
    /\ wPc = "read" /\ wRun.cmd = "attach"
    /\ LET run == [wRun EXCEPT !.seen = getTmuxWindowSprite(r)]
       IN CASE r = "error" -> Finish(wRun, "errSpawn", wBinding)
            [] run.seen = "none" -> Finish(run, "errNoSprite", wBinding)
            [] OTHER -> Await("probe", run)
    /\ UNCHANGED <<wInTmux, wBinding, wSandbox>>
    /\ UNCHANGED <<createVars, bridgeVars, nameVars, pairVars>>

\* variant: a sandbox that was not found is reported without the unset
AttachProbedWithoutClear(out) ==
    /\ wPc = "probe"
    /\ out \in (IF wSandbox = "live" THEN {"exit0", "otherFailure", "error"}
                ELSE {"notFoundText", "otherFailure", "error"})
    /\ LET run == [wRun EXCEPT !.probed = out]
       IN CASE out = "error" -> Finish(run, "errSpawn", wBinding)
            [] probeSpriteExistence(out) = "no" ->
                   Finish(run, "errRecreate", wBinding)
            [] probeSpriteExistence(out) = "unknown" ->
                   Finish(run, "errVerify", wBinding)
            [] OTHER -> Await("remoteHome", run)
    /\ UNCHANGED <<wInTmux, wBinding, wSandbox>>
    /\ UNCHANGED <<createVars, bridgeVars, nameVars, pairVars>>

\* cmdAttach after probeSpriteExistence
AttachProbed(out) ==
    /\ wPc = "probe"
    /\ out \in (IF wSandbox = "live" THEN {"exit0", "otherFailure", "error"}
                ELSE {"notFoundText", "otherFailure", "error"})
    /\ LET run == [wRun EXCEPT !.probed = out]
       IN CASE out = "error" -> Finish(run, "errSpawn", wBinding)
            [] probeSpriteExistence(out) = "no" ->
                   Await("clear", [run EXCEPT !.clears = @ + 1])
            [] probeSpriteExistence(out) = "unknown" ->
                   Finish(run, "errVerify", wBinding)
            [] OTHER -> Await("remoteHome", run)
    /\ UNCHANGED <<wInTmux, wBinding, wSandbox>>
    /\ UNCHANGED <<createVars, bridgeVars, nameVars, pairVars>>

\* cmdAttach after clearTmuxWindowSprite: the recreate error, or tmux's
AttachCleared(r) ==
    /\ wPc = "clear"
    /\ wBinding' = IF r = "ok" THEN "none" ELSE wBinding
    /\ Finish(wRun, CASE r = "ok" -> "errRecreate"
                      [] r = "fail" -> "errTmux"
                      [] OTHER -> "errSpawn", wBinding')
    /\ UNCHANGED <<wInTmux, wSandbox>>
    /\ UNCHANGED <<createVars, bridgeVars, nameVars, pairVars>>

\* cmdAttach after getRemoteHome
AttachRemoteHome(r) ==
    /\ wPc = "remoteHome"
    /\ IF r = "error" THEN Finish(wRun, "errSpawn", wBinding)
       ELSE Await("keyCheck", wRun)
    /\ UNCHANGED <<wInTmux, wBinding, wSandbox>>
    /\ UNCHANGED <<createVars, bridgeVars, nameVars, pairVars>>

\* cmdAttach after isCockpitManagedGithubKey: key upload, or the shell
AttachKeyCheck(managed) ==
    /\ wPc = "keyCheck"
    /\ IF managed THEN Await("keyUpload", wRun)
       ELSE Await("shell", [wRun EXCEPT !.attached = TRUE])
    /\ UNCHANGED <<wInTmux, wBinding, wSandbox>>
    /\ UNCHANGED <<createVars, bridgeVars, nameVars, pairVars>>

\* cmdAttach after the key upload (runOk)
AttachKeyUpload(r) ==
    /\ wPc = "keyUpload"
    /\ CASE r = "ok" -> Await("shell", [wRun EXCEPT !.attached = TRUE])
         [] r = "fail" -> Finish(wRun, "errCommand", wBinding)
         [] OTHER -> Finish(wRun, "errSpawn", wBinding)
    /\ UNCHANGED <<wInTmux, wBinding, wSandbox>>
    /\ UNCHANGED <<createVars, bridgeVars, nameVars, pairVars>>

\* attachToSprite: the shell has exited with code 0 or not
AttachShellExit(r) ==
    /\ wPc = "shell"
    /\ r \in {"ok", "fail"}
    /\ Finish(wRun, IF r = "ok" THEN "ok" ELSE "errShell", wBinding)
    /\ UNCHANGED <<wInTmux, wBinding, wSandbox>>
    /\ UNCHANGED <<createVars, bridgeVars, nameVars, pairVars>>

\* cmdDestroy after getTmuxWindowSprite: no binding throws, else the forced
\* destroy is spawned
DestroyBindingRead(r) ==
    /\ wPc = "read" /\ wRun.cmd = "destroy"
    /\ LET run == [wRun EXCEPT !.seen = getTmuxWindowSprite(r)]
       IN CASE r = "error" -> Finish(wRun, "errSpawn", wBinding)
            [] run.seen = "none" -> Finish(run, "errNoSprite", wBinding)
            [] OTHER -> Await("destroy", [run EXCEPT !.destroys = @ + 1])
    /\ UNCHANGED <<wInTmux, wBinding, wSandbox>>
    /\ UNCHANGED <<createVars, bridgeVars, nameVars, pairVars>>

\* cmdDestroy after the destroy command (allowFailure): clearTmuxWindowSprite
DestroyDone(r) ==
    /\ wPc = "destroy"
    /\ wSandbox' = IF r = "ok" THEN "gone" ELSE wSandbox
    /\ IF r = "error" THEN Finish(wRun, "errSpawn", wBinding)
       ELSE Await("unbind", [wRun EXCEPT !.clears = @ + 1])
    /\ UNCHANGED <<wInTmux, wBinding>>
    /\ UNCHANGED <<createVars, bridgeVars, nameVars, pairVars>>

\* cmdDestroy after clearTmuxWindowSprite, whose failure is caught and logged
DestroyCleared(r) ==
    /\ wPc = "unbind"
    /\ wBinding' = IF r = "ok" THEN "none" ELSE wBinding
    /\ Finish(wRun, "ok", wBinding')
    /\ UNCHANGED <<wInTmux, wSandbox>>
    /\ UNCHANGED <<createVars, bridgeVars, nameVars, pairVars>>

(***************************************************************************)
(* The existing-binding check at the head of cmdCreate, in the window the  *)
(* command is run in.  wRun records what the check saw and did, wLog the   *)
(* error it threw.                                                         *)
(***************************************************************************)
\* the state of a cockpit process when cmdCreate is called
ProcessStart ==
    /\ inTmux = wInTmux
    /\ pc = IF inTmux THEN "bindingRead" ELSE "authCheck"
    /\ thrown = FALSE /\ spriteReady = FALSE /\ tmuxBound = FALSE
    /\ cleaningUp = FALSE /\ cleanupOwner = "none" /\ cleanupAt = "idle"
    /\ cleanupRuns = 0 /\ destroyIssued = 0 /\ clearIssued = 0
    /\ readyAtCleanup = FALSE /\ signals = 0 /\ lastSignal = "none"
    /\ sandbox = "none" /\ binding = "none" /\ shell = "none"
    /\ exitCode = "running" /\ childKills = 0 /\ abortedAt = "none"
    /\ stepLog = <<>>

InitCreateInWindow ==
    /\ wInTmux \in BOOLEAN
    /\ wBinding \in {"none", BoundName}
    /\ wSandbox \in {"live", "gone"}
    /\ wPc = "idle"
    /\ wRun = [NoRun EXCEPT !.cmd = "create", !.before = wBinding]
    /\ wLog = <<>>
    /\ qa \in BOOLEAN /\ qaTurn \in BOOLEAN /\ needsSsh \in BOOLEAN
    /\ ProcessStart

\* what a step of the check leaves alone
CheckFrame ==
    /\ UNCHANGED <<inTmux, qa, qaTurn, needsSsh, clearIssued, signals,
                   lastSignal, childKills, stepLog>>
    /\ UNCHANGED <<spriteReady, tmuxBound, sandbox, binding, shell>>
    /\ UNCHANGED <<wInTmux, wSandbox>>
    /\ UNCHANGED <<bridgeVars, nameVars, pairVars>>

\* the check throws: cmdCreate rejects before anything was provisioned
CheckThrows(run, outcome, after) ==
    /\ AbortBeforeTry
    /\ Finish(run, outcome, after)

\* the check goes on to its next await, or to the provisioning
CheckGoesOn(next, run) ==
    /\ Goto(next)
    /\ wRun' = run
    /\ UNCHANGED <<wPc, wLog>>

\* cmdCreate after getTmuxWindowSprite: no binding goes on to provisioning
BindingRead(r) ==
    /\ Running /\ pc = "bindingRead"
    /\ LET run == [wRun EXCEPT !.seen = getTmuxWindowSprite(r)]
       IN CASE r = "error" -> CheckThrows(wRun, "errSpawn", wBinding)
            [] run.seen = "none" -> CheckGoesOn("authCheck", run)
            [] OTHER -> CheckGoesOn("bindingProbe", run)
    /\ UNCHANGED wBinding
    /\ CheckFrame

\* variant: a sandbox that is present does not stop the command
BindingProbedWithoutThrow(out) ==
    /\ Running /\ pc = "bindingProbe"
    /\ out \in (IF wSandbox = "live" THEN {"exit0", "otherFailure", "error"}
                ELSE {"notFoundText", "otherFailure", "error"})
    /\ LET run == [wRun EXCEPT !.probed = out]
       IN CASE out = "error" -> CheckThrows(run, "errSpawn", wBinding)
            [] probeSpriteExistence(out) = "no" ->
                   CheckGoesOn("bindingClear", [run EXCEPT !.clears = @ + 1])
            [] probeSpriteExistence(out) = "unknown" ->
                   CheckThrows(run, "errVerify", wBinding)
            [] OTHER -> CheckGoesOn("authCheck", run)
    /\ UNCHANGED wBinding
    /\ CheckFrame

\* cmdCreate after probeSpriteExistence of the bound sandbox
BindingProbed(out) ==
    /\ Running /\ pc = "bindingProbe"
    /\ out \in (IF wSandbox = "live" THEN {"exit0", "otherFailure", "error"}
                ELSE {"notFoundText", "otherFailure", "error"})
    /\ LET run == [wRun EXCEPT !.probed = out]
       IN CASE out = "error" -> CheckThrows(run, "errSpawn", wBinding)
            [] probeSpriteExistence(out) = "no" ->
                   CheckGoesOn("bindingClear", [run EXCEPT !.clears = @ + 1])
            [] probeSpriteExistence(out) = "unknown" ->
                   CheckThrows(run, "errVerify", wBinding)
            [] OTHER -> CheckThrows(run, "errBound", wBinding)
    /\ UNCHANGED wBinding
    /\ CheckFrame

\* cmdCreate after clearTmuxWindowSprite, which throws when tmux fails
BindingCleared(r) ==
    /\ Running /\ pc = "bindingClear"
    /\ wBinding' = IF r = "ok" THEN "none" ELSE wBinding
    /\ CASE r = "ok" -> CheckGoesOn("authCheck", wRun)
         [] r = "fail" -> CheckThrows(wRun, "errTmux", wBinding')
         [] OTHER -> CheckThrows(wRun, "errSpawn", wBinding')
    /\ CheckFrame

\* the sprite name in the window option once the run has written it
WindowSprite == IF tmuxBound THEN binding ELSE wBinding

(***************************************************************************)
(* nowStamp and sanitizeName.  A string is a sequence of characters, and a *)
(* character stands for its class: "a" a lowercase ASCII letter, "A" a     *)
(* character that toLowerCase() turns into one, "7" a digit, "-" the       *)
(* hyphen and "_" any other character.                                     *)
(***************************************************************************)
Chars == {"a", "A", "7", "-", "_"}

\* .slice(0, 50)
SliceLimit == 50

\* the lengths a run of equal characters has in the inputs
RunLengths == {1, SliceLimit - 1, SliceLimit}

\* n times the character ch
Repeat(ch, n) == [i \in 1..n |-> ch]

\* the string made of the runs
RECURSIVE Expand(_)
Expand(runs) ==
    IF runs = <<>> THEN <<>>
    ELSE Repeat(runs[1].ch, runs[1].n) \o Expand(Tail(runs))

\* the runs an input is made of
RunSeqs == UNION {[1..k -> [ch : Chars, n : RunLengths]] : k \in 0..MaxRuns}

\* nowStamp(): YYYYMMDD-HHMMSS, with a year of `digits` digits
nowStamp(digits) ==
    Repeat("7", digits + 4) \o <<"-">> \o Repeat("7", 6)

\* `cockpit-${nowStamp()}`
StampNames ==
    {Repeat("a", 7) \o <<"-">> \o nowStamp(digits) : digits \in 4..MaxYearDigits}

\* no name has been made
NotNamed == <<"unset">>

\* .toLowerCase()
toLowerCase(str) == [i \in 1..Len(str) |-> IF str[i] = "A" THEN "a" ELSE str[i]]

\* [a-z0-9-]
Allowed(ch) == ch \in {"a", "7", "-"}

\* .replace(/[^a-z0-9-]+/g, "-"): each run of other characters becomes one
\* hyphen
ReplaceOthers(str) ==
    LET marked == [i \in 1..Len(str) |->
                      IF Allowed(str[i]) THEN str[i]
                      ELSE IF i = 1 \/ Allowed(str[i - 1]) THEN "-"
                      ELSE "rest of run"]
        Kept(ch) == ch # "rest of run"
    IN SelectSeq(marked, Kept)

\* .replace(/^-+|-+$/g, ""): the hyphens at both ends are removed
TrimHyphens(str) ==
    IF \A i \in 1..Len(str) : str[i] = "-" THEN <<>>
    ELSE LET first == CHOOSE i \in 1..Len(str) :
                          str[i] # "-" /\ \A j \in 1..(i - 1) : str[j] = "-"
             last == CHOOSE i \in 1..Len(str) :
                          str[i] # "-" /\ \A j \in (i + 1)..Len(str) : str[j] = "-"
         IN SubSeq(str, first, last)

\* .slice(0, 50)
Slice(str) == SubSeq(str, 1, IF Len(str) < SliceLimit THEN Len(str) ELSE SliceLimit)

\* variant: the hyphens at both ends are kept
sanitizeNameWithoutTrim(name) == Slice(ReplaceOthers(toLowerCase(name)))

sanitizeName(name) == Slice(TrimHyphens(ReplaceOthers(toLowerCase(name))))

\* no name is made
NameIdle == rawName = <<>> /\ spriteName = NotNamed

\* a string is about to be handed to sanitizeName
InitName ==
    /\ rawName \in {Expand(runs) : runs \in RunSeqs} \cup StampNames
    /\ spriteName = NotNamed

\* spriteName = sanitizeName(...)
SanitizeCall ==
    /\ spriteName = NotNamed
    /\ spriteName' = sanitizeName(rawName)
    /\ UNCHANGED rawName
    /\ UNCHANGED <<createVars, bridgeVars, windowVars, pairVars>>

(***************************************************************************)
(* Several cockpit processes running cmdCreate (interactive, without       *)
(* --dry-run) in the same tmux window.  Each process reads the window      *)
(* option, creates its sandbox, provisions it, binds the window and        *)
(* attaches a shell.  The steps from getRemoteHome to the sanity check do  *)
(* not touch the window and are one step here.                             *)
(***************************************************************************)
Creators == 1..MaxCreators

\* the create run that bound the window before these started, if one did
Earlier == MaxCreators + 1

\* that run has ended in the shell's exit: its sandbox was kept for the
\* window and is alive, or was destroyed since without the binding cleared
EarlierRuns ==
    {[pc |-> "ended", read |-> "ok", seen |-> 0, probed |-> "none", sandbox |-> sb,
      spriteReady |-> TRUE, tmuxBound |-> TRUE, destroys |-> 0] :
        sb \in {"live", "gone"}}

\* a process that has not read the window option yet
NewCreator == [pc |-> "read", read |-> "none", seen |-> 0, probed |-> "none", sandbox |-> "none",
               spriteReady |-> FALSE, tmuxBound |-> FALSE, destroys |-> 0]

\* no such processes
PairIdle == creators = <<>> /\ option = 0

InitPair ==
    \/ /\ creators = [p \in Creators |-> NewCreator]
       /\ option = 0
    \/ \E e \in EarlierRuns :
           /\ creators = [p \in Creators \cup {Earlier} |->
                             IF p = Earlier THEN e ELSE NewCreator]
           /\ option = Earlier

\* what a step of process p leaves alone
PairFrame == UNCHANGED <<createVars, bridgeVars, windowVars, nameVars>>

\* process p goes to `next` with the fields of `run`
Moves(p, run, next) == creators' = [creators EXCEPT ![p] = [run EXCEPT !.pc = next]]

\* cleanup() of process p in the finally block: inside tmux the destroy
\* command is spawned only when spriteReady is false
Cleans(p, run) ==
    IF ~run.spriteReady
    THEN Moves(p, [run EXCEPT !.destroys = @ + 1], "destroy")
    ELSE Moves(p, run, "ended")

\* cmdCreate after getTmuxWindowSprite
PairBindingRead(p, r) ==
    /\ creators[p].pc = "read"
    /\ LET run == [creators[p] EXCEPT !.read = r,
                                      !.seen = IF r = "ok" THEN option ELSE 0]
       IN CASE r = "error" -> Moves(p, [creators[p] EXCEPT !.read = r], "ended")
            [] run.seen = 0 -> Moves(p, run, "create")
            [] OTHER -> Moves(p, run, "probe")
    /\ UNCHANGED option
    /\ PairFrame

\* cmdCreate after probeSpriteExistence of the sandbox the option names
PairBindingProbed(p, out) ==
    /\ creators[p].pc = "probe"
    /\ out \in (IF creators[creators[p].seen].sandbox = "live"
                THEN {"exit0", "otherFailure", "error"}
                ELSE {"notFoundText", "otherFailure", "error"})
    /\ LET run == [creators[p] EXCEPT !.probed = out]
       IN IF out # "error" /\ probeSpriteExistence(out) = "no"
          THEN Moves(p, run, "clear")
          ELSE Moves(p, run, "ended")
    /\ UNCHANGED option
    /\ PairFrame

\* cmdCreate after clearTmuxWindowSprite
PairBindingCleared(p, r) ==
    /\ creators[p].pc = "clear"
    /\ option' = IF r = "ok" THEN 0 ELSE option
    /\ Moves(p, creators[p], IF r = "ok" THEN "create" ELSE "ended")
    /\ PairFrame

\* cmdCreate after the auth check and `sprite create`
PairCreated(p, r) ==
    /\ creators[p].pc = "create"
    /\ IF r = "ok"
       THEN Moves(p, [creators[p] EXCEPT !.sandbox = "live"], "provision")
       ELSE Moves(p, creators[p], "ended")
    /\ UNCHANGED option
    /\ PairFrame

\* cmdCreate after the steps up to the sanity check: spriteReady = true and
\* the spawn of `tmux set-option`, or the finally block
PairProvisioned(p, r) ==
    /\ creators[p].pc = "provision"
    /\ IF r = "ok"
       THEN Moves(p, [creators[p] EXCEPT !.spriteReady = TRUE], "bind")
       ELSE Cleans(p, creators[p])
    /\ UNCHANGED option
    /\ PairFrame

\* cmdCreate after setTmuxWindowSprite: tmuxBound = true and the shell, or
\* the finally block
PairBound(p, r) ==
    /\ creators[p].pc = "bind"
    /\ IF r = "ok"
       THEN /\ option' = p
            /\ Moves(p, [creators[p] EXCEPT !.tmuxBound = TRUE], "shell")
       ELSE UNCHANGED option /\ Cleans(p, creators[p])
    /\ PairFrame

\* the attached shell has exited: the finally block
PairShellExit(p) ==
    /\ creators[p].pc = "shell"
    /\ Cleans(p, creators[p])
    /\ UNCHANGED option
    /\ PairFrame

\* cleanup of process p after its destroy command (allowFailure)
PairDestroyDone(p, r) ==
    /\ creators[p].pc = "destroy"
    /\ Moves(p, [creators[p] EXCEPT !.sandbox = IF r = "ok" THEN "gone" ELSE @],
             "ended")
    /\ UNCHANGED option
    /\ PairFrame

(***************************************************************************)
(* The specifications.                                                     *)
(***************************************************************************)
\* no attach or destroy command runs in the process
WindowIdle ==
    /\ wInTmux = FALSE /\ wBinding = "none" /\ wSandbox = "gone"
    /\ wPc = "idle" /\ wRun = NoRun /\ wLog = <<>>

\* no web server in a cockpit process: the bridge's state stays as built
BridgeIdle == InitBridge

\* no cmdCreate run in the web server's process
CreateIdle ==
    /\ inTmux = FALSE /\ qa = FALSE /\ qaTurn = FALSE /\ needsSsh = FALSE
    /\ RunStart

InitCreateRun == InitCreate /\ BridgeIdle /\ WindowIdle /\ NameIdle /\ PairIdle

NextCreate ==
    \/ \E r \in Results : AuthCheck(r)
    \/ \E r \in Results : Login(r)
    \/ \E r \in Results : Create(r)
    \/ \E r \in Results : RemoteHome(r)
    \/ \E key \in KeyStates : KeyCheck(key)
    \/ \E r \in Results : KeyUpload(r)
    \/ \E r \in Results : Bootstrap(r)
    \/ \E git \in GitRuns : Clone(git)
    \/ \E exists \in BOOLEAN : PiDirCheck(exists)
    \/ \E r \in Results : Tar(r)
    \/ \E r \in Results : Upload(r)
    \/ \E r \in Results : Sanity(r)
    \/ \E r \in Results : QaTurnStep(r)
    \/ \E r \in Results : QaStep(r)
    \/ \E r \in Results : Bind(r)
    \/ \E r \in Results : Attach(r)
    \/ \E sig \in Signals : Signal(sig)
    \/ \E r \in Results : CleanupDestroyDone(r)
    \/ \E r \in Results : CleanupClearDone(r)

\* one run of `cockpit` (cmdCreate)
SpecCreate == InitCreateRun /\ [][NextCreate]_vars

\* the main flow's pending child process ends
CreateSteps ==
    \/ \E r \in Results : AuthCheck(r)
    \/ \E r \in Results : Login(r)
    \/ \E r \in Results : Create(r)
    \/ \E r \in Results : RemoteHome(r)
    \/ \E key \in KeyStates : KeyCheck(key)
    \/ \E r \in Results : KeyUpload(r)
    \/ \E r \in Results : Bootstrap(r)
    \/ \E git \in GitRuns : Clone(git)
    \/ \E exists \in BOOLEAN : PiDirCheck(exists)
    \/ \E r \in Results : Tar(r)
    \/ \E r \in Results : Upload(r)
    \/ \E r \in Results : Sanity(r)
    \/ \E r \in Results : QaTurnStep(r)
    \/ \E r \in Results : QaStep(r)
    \/ \E r \in Results : Bind(r)
    \/ \E r \in Results : Attach(r)

\* the child process cleanup() waits for ends
CleanupSteps ==
    \/ \E r \in Results : CleanupDestroyDone(r)
    \/ \E r \in Results : CleanupClearDone(r)

\* one run of `cockpit` (cmdCreate) in which every spawned child process
\* eventually ends and its `close` callback is run; signals may or may not
\* arrive
SpecCreateFair ==
    InitCreateRun /\ [][NextCreate]_vars /\ WF_vars(CreateSteps) /\ WF_vars(CleanupSteps)

InitServer == InitBridge /\ CreateIdle /\ WindowIdle /\ NameIdle /\ PairIdle

\* transports connecting and closing, at most `limit` of them
Lifecycle(limit) ==
    \/ \E id \in SpriteIds : WsOpen(id, limit)
    \/ \E t \in 1..MaxTransports : LookupDone(t)
    \/ \E t \in 1..MaxTransports, ok \in BOOLEAN : CreateDone(t, ok)
    \/ \E t \in 1..MaxTransports : WsClose(t)

NextBridge ==
    \/ Lifecycle(MaxTransports)
    \/ \E s \in 1..MaxTransports : EmitEvent(s)

\* the agent bridge: transports connect and close while the agent sessions
\* emit events
SpecBridge == InitServer /\ [][NextBridge]_vars

NextCommands ==
    \/ Lifecycle(MaxClients)
    \/ \E t \in 1..MaxTransports, kind \in MessageKinds : ClientMessage(t, kind)
    \/ \E id \in SpriteIds : disposeAgent(id)

\* the agent bridge: transports connect and close while clients send
\* messages and sprites are disposed
SpecCommands == InitServer /\ [][NextCommands]_vars

NextMessages ==
    \/ Lifecycle(MaxClients)
    \/ \E t \in 1..MaxTransports, kind \in MessageKinds : ClientMessage(t, kind)
    \/ \E t \in 1..MaxTransports, shape \in MalformedShapes : MalformedMessage(t, shape)

\* the agent bridge: transports connect and close while clients send
\* well-formed and malformed messages
SpecMessages == InitServer /\ [][NextMessages]_vars

NextPrompts ==
    \/ Lifecycle(MaxClients)
    \/ \E t \in 1..MaxTransports, kind \in MessageKinds : ClientMessage(t, kind)
    \/ \E s \in 1..MaxTransports, i \in 1..MaxMessages, ok \in BOOLEAN :
          PromptSettled(s, i, ok)

\* the agent bridge: transports connect and close while clients send
\* messages and the prompts handed to the sessions resolve or reject
SpecPrompts == InitServer /\ [][NextPrompts]_vars

NextDelete ==
    \/ Lifecycle(MaxClients)
    \/ \E t \in 1..MaxTransports, kind \in MessageKinds : ClientMessage(t, kind)
    \/ \E id \in SpriteIds : deleteSprite(id)

\* the agent bridge: transports connect and close while clients send
\* messages and sprites are deleted through the dashboard or the API
SpecDelete == InitServer /\ [][NextDelete]_vars

InitWindowRun == InitWindow /\ CreateIdle /\ BridgeIdle /\ NameIdle /\ PairIdle

NextWindow ==
    \/ cmdAttach
    \/ cmdDestroy
    \/ \E r \in Results : AttachBindingRead(r)
    \/ \E out \in ProbeOutcomes : AttachProbed(out)
    \/ \E r \in Results : AttachCleared(r)
    \/ \E r \in Results : AttachRemoteHome(r)
    \/ \E managed \in BOOLEAN : AttachKeyCheck(managed)
    \/ \E r \in Results : AttachKeyUpload(r)
    \/ \E r \in Results : AttachShellExit(r)
    \/ \E r \in Results : DestroyBindingRead(r)
    \/ \E r \in Results : DestroyDone(r)
    \/ \E r \in Results : DestroyCleared(r)

\* attach and destroy commands run one after the other in one tmux window
SpecWindow == InitWindowRun /\ [][NextWindow]_vars

InitCreateCheck == InitCreateInWindow /\ BridgeIdle /\ NameIdle /\ PairIdle

NextCreateCheck ==
    \/ \E r \in Results : BindingRead(r)
    \/ \E out \in ProbeOutcomes : BindingProbed(out)
    \/ \E r \in Results : BindingCleared(r)
    \/ NextCreate

\* one run of `cockpit` in a window that may already be bound
SpecCreateCheck == InitCreateCheck /\ [][NextCreateCheck]_vars

InitNaming == InitName /\ CreateIdle /\ BridgeIdle /\ WindowIdle /\ PairIdle

NextNaming ==
    \/ SanitizeCall

\* sanitizeName applied to one string
SpecNaming == InitNaming /\ [][NextNaming]_vars

InitPairRun == InitPair /\ CreateIdle /\ BridgeIdle /\ WindowIdle /\ NameIdle

NextPair ==
    \/ \E p \in Creators, r \in Results : PairBindingRead(p, r)
    \/ \E p \in Creators, out \in ProbeOutcomes : PairBindingProbed(p, out)
    \/ \E p \in Creators, r \in Results : PairBindingCleared(p, r)
    \/ \E p \in Creators, r \in Results : PairCreated(p, r)
    \/ \E p \in Creators, r \in Results : PairProvisioned(p, r)
    \/ \E p \in Creators, r \in Results : PairBound(p, r)
    \/ \E p \in Creators : PairShellExit(p)
    \/ \E p \in Creators, r \in Results : PairDestroyDone(p, r)

\* cockpit create runs started in the same tmux window
SpecPair == InitPairRun /\ [][NextPair]_vars

(***************************************************************************)
(* Properties of cmdCreate.                                                *)
(***************************************************************************)
ShellExited == shell \in {"exit0", "exitN"}

NeverReadyIsDestroyed ==
    (~Running /\ InPipeline /\ ~spriteReady) => destroyIssued = 1

\* C3 witness: an interactive run inside tmux ended before the sandbox was
\* ready and the destroy command was issued.
NeverReadyInTmuxDestroyed ==
    /\ ~Running /\ InPipeline /\ ~spriteReady
    /\ inTmux /\ ~qa /\ ~qaTurn
    /\ destroyIssued = 1

QaAlwaysDestroys ==
    (qa \/ qaTurn) =>
        /\ ~tmuxBound /\ binding = "none" /\ clearIssued = 0
        /\ (InPipeline /\ (~Running \/ pc \in {"finally", "ended"}))
              => destroyIssued = 1

\* C16 witness: a --qa run inside tmux whose scripted check failed (no
\* signal) has ended with the sandbox destroyed.
QaFailedInTmuxDestroyed ==
    /\ ~Running /\ inTmux /\ qa /\ ~qaTurn /\ spriteReady /\ thrown
    /\ signals = 0 /\ destroyIssued = 1 /\ sandbox = "gone"

\* C17: when the process has exited through the signal handler (130 or
\* 143), no cleanup command is still running: a destroy command that was
\* due has been issued and has completed.
SignalExitAfterCleanup ==
    exitCode \in {"130", "143"} => ~CleanupInFlight

\* C18: a run that created its sandbox and has ended after receiving a
\* handled signal has exit code 130 (SIGINT) or 143 (SIGTERM), whatever the
\* pipeline steps did meanwhile; an ended run that received no signal has
\* exit code 1 if a step failed and 0 otherwise.
ExitCodeFollowsSignal ==
    ~Running =>
        /\ (InPipeline /\ signals > 0) => exitCode = SignalExitCode(lastSignal)
        /\ signals = 0 => exitCode = NaturalExit(thrown)

\* C19: a signal that arrives while the attached shell is running is
\* forwarded to the shell's process by the handler (before cleanup issues
\* the destroy command).
SignalForwardedToChild ==
    [][(signals' = signals + 1 /\ shell = "running")
          => childKills' = childKills + 1]_vars

\* C20: while no sandbox was created no step after the create command is
\* started, no destroy command is issued, no cleanup runs, the window is not
\* bound and no shell is attached; when the create command has failed the
\* run is over at once with exit code 1.
CreateFailureAborts ==
    /\ sandbox = "none" =>
          /\ pc \in PreStages \cup {"ended"}
          /\ cleanupRuns = 0 /\ destroyIssued = 0 /\ clearIssued = 0
          /\ ~tmuxBound /\ binding = "none" /\ shell = "none" /\ ~spriteReady
    /\ abortedAt = "create" =>
          sandbox = "none" /\ pc = "ended" /\ exitCode = "1"

\* C20 witness: the create command failed and the run has ended.
CreateFailed ==
    abortedAt = "create" /\ ~Running /\ signals = 0

\* the main flow is suspended at one of its steps
AtStep == Running /\ pc \notin {"finally", "ended"}

\* the step has completed with exit code 0
Done(step) ==
    \E i \in 1..Len(stepLog) : stepLog[i].step = step /\ stepLog[i].result = "ok"

\* the step has completed with a non-zero exit code or could not be spawned
Failed(step) ==
    \E i \in 1..Len(stepLog) : stepLog[i].step = step /\ stepLog[i].result # "ok"

\* the step is the last one that completed
EndedWith(step) ==
    Len(stepLog) > 0 /\ stepLog[Len(stepLog)].step = step

\* C23: in every state of a cmdCreate run, tmuxBound implies spriteReady,
\* and the window option is only written by a run whose sanity check has
\* succeeded.
BoundOnlyWhenReady ==
    /\ tmuxBound => spriteReady
    /\ binding = "mine" => (spriteReady /\ Done("sanity"))
    /\ pc = "bind" => spriteReady

\* C23 witness: the window is bound and the shell is attached.
BoundAndAttached ==
    tmuxBound /\ spriteReady /\ binding = "mine" /\ shell = "running"

\* the place of a step in the pipeline
StepRank ==
    [step \in {"authCheck", "login", "create", "remoteHome", "keyCheck",
               "keyUpload", "bootstrap", "clone", "piDirCheck", "tar", "upload",
               "sanity", "qaTurnStep", "qaStep", "bind", "attach"} |->
        CASE step = "authCheck" -> 1   [] step = "login" -> 2
          [] step = "create" -> 3      [] step = "remoteHome" -> 4
          [] step = "keyCheck" -> 5    [] step = "keyUpload" -> 6
          [] step = "bootstrap" -> 7   [] step = "clone" -> 8
          [] step = "piDirCheck" -> 9  [] step = "tar" -> 10
          [] step = "upload" -> 11     [] step = "sanity" -> 12
          [] step = "attach" -> 14     [] OTHER -> 13]

\* the main flow goes on after this completed step: its child process
\* exited with code 0, or it is the authentication probe (a failed probe is
\* followed by the login), the remote-home probe (exit code not looked at)
\* or the test for the local config directory (no child process)
GoesOnAfter(e) ==
    \/ e.result = "ok"
    \/ e.result = "fail" /\ e.step \in {"authCheck", "remoteHome", "piDirCheck"}

CloneEntries == {i \in 1..Len(stepLog) : stepLog[i].step = "clone"}

\* C21: when `git clone --branch` fails the script warns and runs the
\* default-branch clone, whose result is the result of the clone step; the
\* clone step fails with a non-zero exit code only when both clones failed;
\* after a successful fallback the run goes on to the next step, after a
\* failed one it throws.
CloneFallsBack ==
    /\ \A i \in CloneEntries :
          LET e == stepLog[i]
          IN /\ e.branch = "fail" =>
                   e.warned /\ e.fallback # "notRun" /\ e.result = e.fallback
             /\ e.branch = "ok" =>
                   ~e.warned /\ e.fallback = "notRun" /\ e.result = "ok"
             /\ e.result = "fail" => (e.branch = "fail" /\ e.fallback = "fail")
    /\ EndedWith("clone") =>
          IF stepLog[Len(stepLog)].result = "ok"
          THEN pc = "piDirCheck" /\ ~thrown
          ELSE pc \in {"finally", "ended"} /\ thrown

\* C21 witness: the branch clone failed, the default-branch clone succeeded
\* with a warning, and the run has reached its shell.
FellBackAndAttached ==
    /\ pc = "attach" /\ Running
    /\ \E i \in CloneEntries :
          /\ stepLog[i].branch = "fail" /\ stepLog[i].warned
          /\ stepLog[i].fallback = "ok" /\ stepLog[i].result = "ok"

\* C25: once the sanity check has failed, spriteReady is false, the window
\* is not bound, no QA check and no shell has been started, the destroy
\* command has been issued, and the process ends with a non-zero exit code.
SanityFailureIsFatal ==
    Failed("sanity") =>
        /\ EndedWith("sanity") /\ ~AtStep
        /\ ~spriteReady /\ ~tmuxBound /\ binding = "none" /\ shell = "none"
        /\ destroyIssued = 1
        /\ ~Running => exitCode \in {"1", "130", "143"}

\* C25 witness: inside tmux, an interactive run whose sanity check failed
\* has ended with exit code 1 and its sandbox destroyed.
SanityFailedAndDestroyed ==
    /\ Failed("sanity") /\ ~Running /\ inTmux /\ ~qa /\ ~qaTurn
    /\ exitCode = "1" /\ sandbox = "gone" /\ signals = 0

\* C26: when the repository needs SSH and the local key is not a
\* self-consistent cockpit-managed key, the run fails at once with the
\* `Run cockpit init` error: no key upload, bootstrap or clone is started,
\* and the destroy command for the sandbox has been issued.
MissingKeyFailsWithInitError ==
    Failed("keyCheck") =>
        /\ needsSsh /\ EndedWith("keyCheck") /\ ~AtStep
        /\ thrown /\ destroyIssued = 1 /\ ~spriteReady
        /\ stepLog[Len(stepLog)].result = "fail"

ShellFailurePropagates ==
    (ShellExited /\ signals = 0) =>
        /\ cleanupRuns = 1
        /\ destroyIssued = (IF inTmux THEN 0 ELSE 1)
        /\ (inTmux => binding = "mine")
        /\ (shell = "exitN" /\ ~Running) => exitCode = "1"

\* C28 witness: inside tmux the shell exited non-zero; the run ended with
\* exit code 1 and the sandbox is kept and bound.
ShellFailedSandboxKept ==
    /\ shell = "exitN" /\ ~Running /\ signals = 0 /\ inTmux
    /\ exitCode = "1" /\ sandbox = "live" /\ binding = "mine"
    /\ cleanupRuns = 1

\* C29: neither the absence of the local config directory nor a failure of
\* the copy (making the archive, uploading and extracting it) ends the
\* pipeline: after each of them the main flow is at the sanity check.
ConfigSyncIsBestEffort ==
    (Len(stepLog) > 0 /\ signals = 0
        /\ stepLog[Len(stepLog)].step \in {"piDirCheck", "tar", "upload"}
        /\ stepLog[Len(stepLog)].result # "ok")
        => pc = "sanity"

(***************************************************************************)
(* Properties of cockpit attach and cockpit destroy.                       *)
(***************************************************************************)
\* the ended commands of kind cmd
Ended(cmd) == {i \in 1..Len(wLog) : wLog[i].run.cmd = cmd}

AmbiguousProbeKeepsBinding ==
    \A i \in Ended("attach") :
        wLog[i].run.probed = "otherFailure" =>
            /\ wLog[i].outcome = "errVerify"
            /\ wLog[i].after = wLog[i].run.before /\ wLog[i].after = BoundName
            /\ wLog[i].run.clears = 0 /\ wLog[i].run.destroys = 0
            /\ ~wLog[i].run.attached

\* C12 witness: an attach with an ambiguous probe has failed and the window
\* is still bound.
AmbiguousProbeFailed ==
    \E i \in Ended("attach") :
        /\ wLog[i].run.probed = "otherFailure" /\ wLog[i].outcome = "errVerify"
        /\ wBinding = BoundName /\ Len(wLog) = i

\* C13: a destroy that read a binding has issued one forced destroy and then
\* one unset of the binding, whether or not the destroy command succeeded;
\* a destroy that read no binding has failed, issued no command and left
\* the binding as it was.
DestroyAlwaysUnbinds ==
    \A i \in Ended("destroy") :
        /\ wLog[i].run.seen = BoundName =>
              wLog[i].run.destroys = 1 /\ wLog[i].run.clears = 1
        /\ wLog[i].run.seen = "none" =>
              /\ wLog[i].outcome = "errNoSprite"
              /\ wLog[i].run.destroys = 0 /\ wLog[i].run.clears = 0
              /\ wLog[i].after = wLog[i].run.before

(***************************************************************************)
(* Properties of the agent bridge.                                         *)
(***************************************************************************)
SessionsOf(id) == {s \in 1..Len(sessions) : sessions[s].sprite = id}

\* the session the map holds for id (0: no entry)
SessionInMap(id) ==
    IF activeConnections[id] = 0 THEN 0
    ELSE connections[activeConnections[id]].session

Range(q) == {q[i] : i \in 1..Len(q)}

ConnectedSockets == {t \in 1..Len(sockets) : sockets[t].phase = "connected"}

\* C1: without any dispose, at most one agent session is ever created for a
\* sprite id, and every transport that has connected uses the session the
\* map holds for its sprite id, also when connects overlap.
OneSessionPerSprite ==
    /\ \A id \in SpriteIds : Cardinality(SessionsOf(id)) <= 1
    /\ \A t \in ConnectedSockets :
          sockets[t].session = SessionInMap(sockets[t].sprite)

\* C6: a transport opened after handleAgentClose found a session for its
\* sprite id, once connected and while open, uses that same session, has
\* received `connected`, and has received every event that session emitted
\* since the connect.
ReconnectResumes ==
    \A t \in ConnectedSockets :
        (sockets[t].afterClose # 0 /\ ~sockets[t].closed) =>
            /\ sockets[t].session = sockets[t].afterClose
            /\ Connected \in Range(sent[t])
            /\ \A n \in (sockets[t].joinedAt + 1)..sessions[sockets[t].session].emitted :
                  AgentEvent(sockets[t].session, n) \in Range(sent[t])

\* C7: for each sprite id at most one transport has an active subscription
\* on a session of that sprite, and no agent event is forwarded to two
\* transports.
SingleLiveTransport ==
    /\ \A id \in SpriteIds :
          Cardinality({subs[k].ws : k \in {j \in 1..Len(subs) :
                          subs[j].active /\ sessions[subs[j].session].sprite = id}}) <= 1
    /\ \A s \in 1..Len(sessions) : \A n \in 1..sessions[s].emitted :
          Cardinality({t \in 1..Len(sent) : AgentEvent(s, n) \in Range(sent[t])}) <= 1

\* C8: no agent event is forwarded to a transport after its close handler
\* has run.
NoEventAfterClose ==
    \A t \in 1..Len(sockets) :
        sockets[t].closed =>
            \A i \in (sockets[t].closedAt + 1)..Len(sent[t]) :
                sent[t][i].type # "event"

\* C9: without any dispose, once a session was created for a sprite id the
\* session created first is the one in the map, and dispose was never
\* called on a session.
FirstSessionStays ==
    /\ \A id \in SpriteIds :
          SessionsOf(id) # {} =>
              /\ SessionInMap(id) # 0
              /\ \A s \in SessionsOf(id) : SessionInMap(id) <= s
    /\ \A s \in 1..Len(sessions) : sessions[s].disposeCalls = 0

\* the step is disposeAgent(id)
DisposeStep(id) == disposeLog' = Append(disposeLog, id)

\* the step is handleClientMessage for a message of `kind` on transport t
MessageStep(t, kind) == inbox' = Append(inbox, [ws |-> t, kind |-> kind])

\* disposeAgent(id) with a map entry: the stored subscription is detached,
\* session.dispose is called once, the entry is removed; without an entry
\* nothing changes
DisposeEffect ==
    \A id \in SpriteIds :
        DisposeStep(id) =>
            IF activeConnections[id] = 0
            THEN UNCHANGED <<activeConnections, connections, sessions, subs,
                             sockets, sent>>
            ELSE LET c == activeConnections[id]
                     k == connections[c].unsubscribe
                     s == connections[c].session
                 IN /\ k # 0 => ~subs'[k].active
                    /\ sessions'[s].disposeCalls = 1
                    /\ \A o \in 1..Len(sessions) :
                          o # s => sessions'[o] = sessions[o]
                    /\ activeConnections'[id] = 0

\* a client message for a sprite id without a map entry is answered with
\* `No active session` and reaches no session
NoSessionReply ==
    \A t \in 1..Len(sockets) : \A kind \in MessageKinds :
        (MessageStep(t, kind) /\ activeConnections[sockets[t].sprite] = 0) =>
            /\ sent'[t] = Append(sent[t], ErrNoSession)
            /\ sessions' = sessions

\* the map never holds a disposed session, and no session is disposed twice
DisposedLeavesMap ==
    /\ \A id \in SpriteIds :
          SessionInMap(id) # 0 => sessions[SessionInMap(id)].disposeCalls = 0
    /\ \A s \in 1..Len(sessions) : sessions[s].disposeCalls <= 1

\* C10: disposeAgent on an existing session detaches the stored
\* subscription, calls session.dispose exactly once and removes the map
\* entry; a client message for an id without entry gets `No active session`;
\* the map never holds a disposed session again, so the next connect creates
\* a new one; disposeAgent on an unknown id changes nothing.
DisposeContract ==
    /\ [][DisposeEffect /\ NoSessionReply]_vars
    /\ []DisposedLeavesMap

\* C10 witness: a transport that had connected got `No active session` for
\* a message after its sprite was disposed, and a later connect has created
\* a new session that the map now holds.
DisposedThenRecreated ==
    \E t \in 1..Len(sockets) : \E s \in 1..Len(sessions) :
        /\ sent[t] = <<Connected, ErrNoSession>>
        /\ sessions[s].sprite = sockets[t].sprite
        /\ sessions[s].disposeCalls = 1
        /\ SessionInMap(sockets[t].sprite) \notin {0, s}

\* the step is the ws message handler for a malformed message on transport t
MalformedStep(t, shape) == inbox' = Append(inbox, [ws |-> t, kind |-> shape])

\* a malformed message was received on transport t
HadMalformed(t) ==
    \E i \in 1..Len(inbox) : inbox[i].ws = t /\ inbox[i].kind \in MalformedShapes

\* C14: a malformed message on a transport adds exactly one `error` event
\* to what was sent on that transport and nothing on the others, reaches no
\* session (no prompt, no abort) and leaves the transport open; a prompt
\* received afterwards on that transport is passed to the session.
MalformedGetsOneError ==
    [][\A t \in 1..Len(sockets) :
          /\ \A shape \in MalformedShapes :
                MalformedStep(t, shape) =>
                    /\ \E e \in {ErrInvalid, ErrInvalidJson} :
                          sent' = Send(sent, t, e)
                    /\ sessions' = sessions
                    /\ sockets' = sockets
          /\ (MessageStep(t, "prompt") /\ HadMalformed(t)
                  /\ activeConnections[sockets[t].sprite] # 0) =>
                LET s == SessionInMap(sockets[t].sprite)
                IN sessions'[s].prompts = sessions[s].prompts + 1]_vars

\* a step of handleClientMessage for a sprite id that has no map entry
UnknownSpriteStep(t) ==
    /\ \E kind \in MessageKinds : MessageStep(t, kind)
    /\ activeConnections[sockets[t].sprite] = 0

\* C15: a prompt or abort for a sprite id without entry in the session map
\* is answered on its transport with `No active session` and nothing else
\* is sent; no session gets a prompt or an abort and the map is unchanged.
UnknownSpriteGetsError ==
    [][\A t \in 1..Len(sockets) :
          UnknownSpriteStep(t) =>
              /\ sent' = Send(sent, t, ErrNoSession)
              /\ UNCHANGED <<sessions, activeConnections, connections, subs>>]_vars

\* C15 witness: a transport of the unregistered sprite id has sent an abort
\* and got `No active session`, while the session of the other sprite id
\* has received nothing.
UnknownSpriteAnswered ==
    \E t \in 1..Len(sockets) :
        /\ sockets[t].sprite = "b"
        /\ inbox = <<[ws |-> t, kind |-> "abort"]>>
        /\ ErrNoSession \in Range(sent[t])
        /\ SessionInMap("a") # 0
        /\ \A s \in 1..Len(sessions) :
              sessions[s].prompts = 0 /\ sessions[s].aborts = 0


(***************************************************************************)
(* The existing-binding check of cmdCreate (SpecCreateCheck).              *)
(***************************************************************************)
\* the error the existing-binding check ended with, "none" if it threw none
CheckError == IF wLog = <<>> THEN "none" ELSE wLog[1].outcome

\* what the check had seen and done when it threw
CheckSaw == IF wLog = <<>> THEN wRun ELSE wLog[1].run

\* the run got past the check: a provisioning step was started
Provisioning == pc \notin {"bindingRead", "bindingProbe", "bindingClear"}
                /\ wLog = <<>>

\* C30: create in a bound tmux window.  A probe that confirms the bound
\* sandbox, or that is ambiguous, ends the run with an error: no sandbox is
\* created, nothing is cleared and the binding is the one found.  The
\* binding is cleared only after a `not found` probe, and provisioning is
\* reached in tmux only with no binding read or with the stale one cleared.
\* So the window option of a confirmed sandbox is never overwritten.
CreateKeepsLiveBinding ==
    /\ CheckSaw.probed \in {"exit0", "otherFailure"} =>
          /\ CheckError = (IF CheckSaw.probed = "exit0" THEN "errBound"
                           ELSE "errVerify")
          /\ pc = "ended" /\ exitCode = "1" /\ thrown
          /\ sandbox = "none" /\ stepLog = <<>> /\ destroyIssued = 0
          /\ CheckSaw.clears = 0
          /\ ~tmuxBound /\ WindowSprite = CheckSaw.before
    /\ CheckSaw.clears > 0 => CheckSaw.probed = "notFoundText"
    /\ wBinding # CheckSaw.before =>
          CheckSaw.probed = "notFoundText" /\ wBinding = "none"
    /\ (Provisioning /\ inTmux) =>
          \/ CheckSaw.seen = "none"
          \/ CheckSaw.probed = "notFoundText" /\ wBinding = "none"
    /\ (tmuxBound /\ CheckSaw.seen # "none") =>
          CheckSaw.probed = "notFoundText" /\ wSandbox = "gone"

\* create was run in a window bound to a live sandbox and was refused
CreateRefusedForLiveSandbox ==
    /\ CheckError = "errBound"
    /\ wBinding = BoundName /\ wSandbox = "live"
    /\ pc = "ended"


(***************************************************************************)
(* sanitizeName (SpecNaming).                                              *)
(***************************************************************************)
\* sanitizeName has returned
Named == spriteName # NotNamed

\* at most 50 characters, all of them lowercase letters, digits or hyphens
SlugShape(str) ==
    /\ Len(str) <= SliceLimit
    /\ \A i \in 1..Len(str) : Allowed(str[i])

\* no hyphen at either end
NoEdgeHyphen(str) == str = <<>> \/ (str[1] # "-" /\ str[Len(str)] # "-")

\* the input without the hyphens at its ends is longer than the limit
Truncated(name) == Len(TrimHyphens(ReplaceOthers(toLowerCase(name)))) > SliceLimit

\* C22 as stated: for every input the result has at most 50 characters, all
\* lowercase letters, digits or hyphens, and no hyphen at either end.
SanitizedIsSlug ==
    Named => (SlugShape(spriteName) /\ NoEdgeHyphen(spriteName))

\* C22, amended: for every input the result has at most 50 characters, all
\* lowercase letters, digits or hyphens, and does not start with a hyphen;
\* it does not end with one unless the input was cut at 50 characters; a
\* name cockpit-<timestamp> is returned as it is.
SanitizedIsSlugUnlessCut ==
    Named =>
       /\ SlugShape(spriteName)
       /\ spriteName # <<>> => spriteName[1] # "-"
       /\ ~Truncated(rawName) => NoEdgeHyphen(spriteName)
       /\ rawName \in StampNames =>
             (spriteName = rawName /\ NoEdgeHyphen(spriteName))

\* C22 witness: the name made from a timestamp has been sanitized.
StampNameSanitized ==
    Named /\ rawName \in StampNames /\ spriteName # <<>>


(***************************************************************************)
(* Forwarding of agent events (SpecBridge).                                *)
(***************************************************************************)
\* the events session s has emitted after its n-th, in the order emitted
EventsSince(s, n) ==
    [i \in 1..(sessions[s].emitted - n) |-> AgentEvent(s, n + i)]

\* C31: an open transport that has connected has been sent `connected`
\* first and then every event its session has emitted since, unchanged,
\* once each and in the order emitted.
ForwardedInOrder ==
    \A t \in ConnectedSockets :
        ~sockets[t].closed =>
            sent[t] = <<Connected>> \o EventsSince(sockets[t].session,
                                                   sockets[t].joinedAt)


\* the step in which createAgentSession rejects for transport t
CreationFailedStep(t) ==
    sockets[t].phase = "creating" /\ sockets'[t].phase = "failed"

\* the step in which store.get resolves for transport t, with its sprite
\* registered and without an entry in the session map
LookupWithoutEntryStep(t) ==
    /\ sockets[t].phase = "lookup" /\ sockets'[t].phase # "lookup"
    /\ sockets[t].sprite \in store
    /\ activeConnections[sockets[t].sprite] = 0

\* C32: when session creation fails for a transport, that step sends one
\* `error` event to it and adds no session, no map entry and no
\* subscription; the transport is never sent `connected` or anything else;
\* and a connect that finds no map entry for its sprite id calls
\* createAgentSession.
FailedCreationReported ==
    /\ [][\A t \in 1..Len(sockets) :
             /\ CreationFailedStep(t) =>
                   /\ sent' = Send(sent, t, ErrCreate)
                   /\ UNCHANGED <<activeConnections, connections, sessions, subs>>
             /\ LookupWithoutEntryStep(t) => sockets'[t].phase = "creating"]_vars
    /\ [](\A t \in 1..Len(sockets) :
             sockets[t].phase = "failed" =>
                 /\ sent[t] = <<ErrCreate>>
                 /\ \A k \in 1..Len(subs) : subs[k].ws # t)

\* C32 witness: creation failed for the first transport of a sprite id,
\* which has left no session and no map entry, and the second transport of
\* that id has connected to a newly created session.
CreationRetried ==
    /\ Len(sockets) = 2
    /\ sockets[1].phase = "failed" /\ sent[1] = <<ErrCreate>>
    /\ sockets[2].sprite = sockets[1].sprite
    /\ sockets[2].phase = "connected"
    /\ Cardinality(SessionsOf(sockets[1].sprite)) = 1


(***************************************************************************)
(* Prompts and aborts (SpecPrompts).                                       *)
(***************************************************************************)
\* how many elements of the sequence satisfy the test
Count(q, Test(_)) == Cardinality({i \in 1..Len(q) : Test(q[i])})

\* the prompts of transport t that session s has rejected
RejectedFor(s, t) ==
    LET Mine(e) == e.ws = t /\ ~e.ok IN Count(sessions[s].settled, Mine)

\* the prompt errors and all errors sent to transport t
PromptErrors(t) == LET Is(m) == m = ErrPrompt IN Count(sent[t], Is)

RejectedPrompts(t) ==
    LET Sum[s \in 0..Len(sessions)] ==
            IF s = 0 THEN 0 ELSE Sum[s - 1] + RejectedFor(s, t)
    IN Sum[Len(sessions)]

\* a message of `kind` on transport t for a sprite id that has a session
SessionMessageStep(t, kind) ==
    MessageStep(t, kind) /\ activeConnections[sockets[t].sprite] # 0

\* C33: for a sprite id with a session, a prompt without text changes
\* nothing and sends nothing; a prompt with text calls session.prompt once,
\* whatever prompts are still pending, and sends nothing; an abort calls
\* session.abort once; and a transport has been sent exactly one error for
\* each of its prompts that was rejected.
PromptsForwarded ==
    /\ [][\A t \in 1..Len(sockets) :
             LET s == SessionInMap(sockets[t].sprite)
             IN /\ SessionMessageStep(t, "promptNoText") =>
                       UNCHANGED <<sessions, sent>>
                /\ SessionMessageStep(t, "prompt") =>
                       /\ sessions' = [sessions EXCEPT
                                          ![s].prompts = @ + 1,
                                          ![s].inflight = Append(@, t)]
                       /\ UNCHANGED sent
                /\ SessionMessageStep(t, "abort") =>
                       /\ sessions' = [sessions EXCEPT ![s].aborts = @ + 1]
                       /\ UNCHANGED sent]_vars
    /\ [](\A t \in 1..Len(sockets) : PromptErrors(t) = RejectedPrompts(t))
    /\ [](\A s \in 1..Len(sessions) :
             sessions[s].prompts =
                 Len(sessions[s].inflight) + Len(sessions[s].settled))

\* C33 witness: a session was handed two prompts; the first was rejected
\* and its transport got one error while the second is still pending.
TwoPromptsOneRejected ==
    \E s \in 1..Len(sessions) : \E t \in 1..Len(sockets) :
        /\ sessions[s].prompts = 2
        /\ Len(sessions[s].inflight) = 1
        /\ sessions[s].settled = <<[ws |-> t, ok |-> FALSE]>>
        /\ PromptErrors(t) = 1


\* the transports of sprite id whose close handler has not run
OpenSockets(id) ==
    {t \in 1..Len(sockets) : sockets[t].sprite = id /\ ~sockets[t].closed}

\* the transports of sprite id whose store.get has not resolved yet
PendingLookups(id) ==
    {t \in 1..Len(sockets) : sockets[t].sprite = id /\ sockets[t].phase = "lookup"}

\* C34: when no transport of a registered sprite is open and no lookup of
\* an open handler is pending, the status of the sprite is `idle`, not
\* `working`.
StatusFollowsTransport ==
    \A id \in store :
        (OpenSockets(id) = {} /\ PendingLookups(id) = {}) => status[id] = "idle"


\* after the step, transport t has a listener registered on its session
SubscribedNext(t) == \E k \in 1..Len(subs') : subs'[k].ws = t /\ subs'[k].active

\* transport t has a listener registered on its session
Subscribed(t) == \E k \in 1..Len(subs) : subs[k].ws = t /\ subs[k].active

\* the step is the close handler of transport t
CloseStep(t) == ~sockets[t].closed /\ sockets'[t].closed

\* C35: the close handler of a transport leaves the subscription of every
\* other open transport of the same sprite id in place.
CloseKeepsOtherTransport ==
    [][\A a \in 1..Len(sockets) : \A b \in 1..Len(sockets) :
          (/\ CloseStep(a)
           /\ b # a /\ sockets[b].sprite = sockets[a].sprite
           /\ ~sockets[b].closed /\ Subscribed(b)) => SubscribedNext(b)]_vars


(***************************************************************************)
(* Orphaned sandboxes and termination of cmdCreate (SpecCreate).           *)
(***************************************************************************)
\* C36: when a run that created a sandbox has ended, the destroy command
\* for the sandbox has been issued or the sandbox is the one bound to the
\* tmux window.
NoOrphanedSandbox ==
    (~Running /\ InPipeline) => (destroyIssued >= 1 \/ binding = "mine")


(***************************************************************************)
(* Create runs in the same tmux window (SpecPair).                         *)
(***************************************************************************)
\* every `tmux show-option` of the runs so far has exited with 0
BindingsReadable == \A p \in Creators : creators[p].read \in {"none", "ok"}

\* C37: when the runs could read the window option, a run that has bound
\* the window and whose sandbox is alive is the run the window option names:
\* no other run has overwritten its binding.
BindingNotOverwritten ==
    BindingsReadable =>
        \A p \in DOMAIN creators :
            (creators[p].tmuxBound /\ creators[p].sandbox = "live") => option = p


(***************************************************************************)
(* Sprite deletion (SpecDelete).                                           *)
(***************************************************************************)
\* C38: the session map holds no entry for an id that is not in the
\* registry: after store.delete(id) the bridge has no agent session for id.
DeletedSpriteHasNoSession ==
    \A id \in SpriteIds : id \notin store => activeConnections[id] = 0


(***************************************************************************)
(* Prompts that arrive before the session is connected (SpecPrompts).      *)
(***************************************************************************)
\* the number of session.prompt calls made so far, over all sessions
PromptCalls(ss) == 
    Cardinality({<<s, n>> \in (1..Len(ss)) \X (1..MaxMessages) : n <= ss[s].prompts})

\* C39: a prompt with text on an open transport of a registered sprite is
\* forwarded to a session exactly once and is not answered with an error, at
\* whatever point after ws.open it arrives.
PromptNeverDropped ==
    [][\A t \in 1..Len(sockets) :
          (MessageStep(t, "prompt") /\ sockets[t].sprite \in store) =>
              /\ PromptCalls(sessions') = PromptCalls(sessions) + 1
              /\ UNCHANGED sent]_vars


====
